---- MODULE Spec2Model ----
(***************************************************************************)
(* Model of the demand calculator of the NY personal-injury document       *)
(* pipeline: src/guidance/aggregator/demand_letter_generator.py.           *)
(*                                                                         *)
(* Python values are modelled as follows.                                  *)
(*   str    a TLA+ string in the case data; lower() yields the sequence   *)
(*          of its characters, and `in` is computed character by character *)
(*          on such sequences (Chars, lower, Contains below).              *)
(*   list   a sequence.                                                    *)
(*   dict   a function whose domain is the set of keys present; d.get(k,x) *)
(*          is Get(d, k, x).                                               *)
(*   None   the value None.                                                *)
(*   float  liability scores are IEEE-754 doubles, kept exactly as a pair  *)
(*          [h, d] (see "binary64 arithmetic"); money is kept exactly in   *)
(*          thousandths of a dollar (see "amounts").                       *)
(***************************************************************************)
EXTENDS Integers, Sequences, FiniteSets, TLC

(***************************************************************************)
(* Bounds of the explored inputs.                                          *)
(***************************************************************************)
\* longest imaging_findings list
MaxImaging == 2
\* longest diagnoses list
MaxDiagnoses == 1
\* longest violations list (liability_analysis and defendant)
MaxViolations == 3
\* longest evidence list
MaxEvidence == 2
\* longest contributing_factors list
MaxFactors == 3
\* most medical records, police reports, policies and bills in a folder
MaxRecords == 2
MaxReports == 2
MaxPolicies == 2
MaxBills == 2
\* most method calls made on the aggregators of one folder
MaxCalls == 2

VARIABLES
    case_data,           \* self.case_data: the loaded case summary
    demand_calculation,  \* self.demand_calculation: {} until calculated
    ret,                 \* <<method, value>> of the call that returned last
    results_folder,      \* the files of the results folder, in iteration order
    aggregator,          \* the aggregator object of the running process, or None
    set_order,           \* the order in which each set of that process iterates
    printed,             \* the lines printed so far
    history              \* the calls made on aggregators, with what they returned

vars == <<case_data, demand_calculation, ret, results_folder, aggregator, set_order,
          printed, history>>

\* the variables of the aggregators
aggregation == <<results_folder, aggregator, set_order, printed, history>>

(***************************************************************************)
(* Python values.                                                          *)
(***************************************************************************)
\* A slot that may hold None, an int or a bool holds a tagged value, so that
\* None, 0 and False stay distinct and comparable.
None == [type |-> "NoneType"]
PyInt(n) == [type |-> "int", value |-> n]
PyBool(b) == [type |-> "bool", value |-> b]

\* an exception leaving the call, in place of the call's value
Raise(e) == [type |-> "raise", value |-> e]
IsRaise(x) == "type" \in DOMAIN x /\ x.type = "raise"

\* not x, for x None or an int
Falsy(x) == x = None \/ x = PyInt(0)

\* {} : the dict with no key
EmptyDict == [k \in {} |-> 0]

\* d.get(k, default)
Get(d, k, default) == IF k \in DOMAIN d THEN d[k] ELSE default

\* the characters of the str s, one one-character string each
Chars(s) == <<>> \o [i \in 1..Len(s) |-> SubSeq(s, i, i)]

\* kw in text (substring test), text a sequence of characters, kw a str
Contains(text, kw) ==
    \E i \in 1..(Len(text) - Len(kw) + 1) :
        \A j \in 1..Len(kw) : text[i + j - 1] = SubSeq(kw, j, j)

UPPERCASE == "ABCDEFGHIJKLMNOPQRSTUVWXYZ"
LOWERCASE == "abcdefghijklmnopqrstuvwxyz"

\* the upper-case letters, and the lower-case letter of each
UpperLetters == {SubSeq(UPPERCASE, i, i) : i \in 1..26}
LowerOf ==
    [c \in UpperLetters |->
        LET i == CHOOSE i \in 1..26 : SubSeq(UPPERCASE, i, i) = c
        IN  SubSeq(LOWERCASE, i, i)]

\* c.lower() for a one-character string
lower_char(c) == IF c \in UpperLetters THEN LowerOf[c] ELSE c

\* s.lower(), as a sequence of characters
lower(s) == <<>> \o [i \in 1..Len(s) |-> lower_char(SubSeq(s, i, i))]

\* sep.join(items)
RECURSIVE join(_, _)
join(sep, items) ==
    IF Len(items) = 0 THEN ""
    ELSE IF Len(items) = 1 THEN items[1]
    ELSE items[1] \o sep \o join(sep, Tail(items))

\* min(a, b) and max(a, b) on int
Min(a, b) == IF a <= b THEN a ELSE b
Max(a, b) == IF a >= b THEN a ELSE b

\* all lists of at most n items drawn from S
ListsUpTo(S, n) == UNION {[1..k -> S] : k \in 0..n}

\* a str in a slot that may also hold a number
PyStr(s) == [type |-> "str", value |-> s]

\* a list returned by a call that may also raise
PyList(items) == [type |-> "list", value |-> items]

\* op folded over the items of a list, left to right (a for loop)
RECURSIVE FoldLeft(_, _, _)
FoldLeft(Op(_, _), acc, items) ==
    IF Len(items) = 0 THEN acc
    ELSE FoldLeft(Op, Op(acc, Head(items)), Tail(items))

\* the items of a list, as a set
Range(items) == {items[i] : i \in 1..Len(items)}

\* x in items, for a list
InList(x, items) == \E i \in 1..Len(items) : items[i] = x

\* kw in s, for two str
InStr(kw, s) == Contains(Chars(s), kw)

\* kw in s.lower()
InLower(kw, s) == Contains(lower(s), kw)

\* s.strip(chars): the characters of the set chars removed from both ends
strip(s, chars) ==
    LET kept == {i \in 1..Len(s) : SubSeq(s, i, i) \notin chars}
    IN  IF kept = {} THEN ""
        ELSE SubSeq(s, CHOOSE i \in kept : \A j \in kept : i <= j,
                       CHOOSE i \in kept : \A j \in kept : i >= j)

\* str(n) for an int n >= 0
RECURSIVE str(_)
str(n) ==
    IF n < 10 THEN SubSeq("0123456789", n + 1, n + 1)
    ELSE str(n \div 10) \o SubSeq("0123456789", (n % 10) + 1, (n % 10) + 1)

\* the three digits of a group of f"{n:,}" after the first
group_of_three(n) == str(n \div 100) \o str((n \div 10) % 10) \o str(n % 10)

\* f"{n:,}" for an int n: thousands separated by commas
RECURSIVE format_thousands(_)
format_thousands(n) ==
    IF n < 0 THEN "-" \o format_thousands(0 - n)
    ELSE IF n < 1000 THEN str(n)
    ELSE format_thousands(n \div 1000) \o "," \o group_of_three(n % 1000)

\* list(dict.fromkeys(items)): the first occurrence of each item, in order
RECURSIVE fromkeys(_)
fromkeys(items) ==
    IF Len(items) = 0 THEN <<>>
    ELSE LET before == fromkeys(SubSeq(items, 1, Len(items) - 1))
             last == items[Len(items)]
         IN  IF InList(last, before) THEN before ELSE Append(before, last)

\* list(set(items)): the distinct items in the iteration order of the set,
\* which depends on the hashes of the items (for str: on the hash seed of
\* the process).  Every order is possible; orders(items) is the set of them.
orders(items) ==
    {o \in [1..Cardinality(Range(items)) -> Range(items)] : Range(o) = Range(items)}

\* mutant: list(items), the duplicates kept
list_set_keeping_duplicates(items, order) == items

\* list(set(items)) in a process whose set iterates in the given order
list_set(items, order) ==
    LET Present(x) == InList(x, items)
    IN  SelectSeq(order, Present)

(***************************************************************************)
(* binary64 arithmetic.                                                    *)
(*                                                                         *)
(* A double x near h/100 is the pair [h |-> h, d |-> d] with               *)
(*     x = h/100 + d * 2^-57 / 100       exactly,                          *)
(* so x * 100 * 2^57 = h * 2^57 + d is an integer.  In that unit the       *)
(* doubles of one binade are the multiples of the binade's ulp: 3200 for   *)
(* [1,2), 1600 for [0.5,1), 800 for [0.25,0.5), ... 100 for [1/32,1/16).   *)
(* Rounding an exact value to the nearest double (ties to even) needs only *)
(* its residue modulo the ulp, which is computed from 2^57 mod ulp.        *)
(***************************************************************************)
\* 2^57 mod m, for m up to 6400 (2^57 = (2^19)^3)
Pow57Mod(m) ==
    LET a == (2 ^ 19) % m
    IN  (((a * a) % m) * a) % m

\* ulp of the binade of the exact value h/100 + d (|d| far below 1/100)
Ulp(h, d) ==
    IF h > 100 \/ (h = 100 /\ d >= 0) THEN 3200
    ELSE IF h >= 50 THEN 1600
    ELSE IF h >= 25 THEN 800
    ELSE IF h >= 13 THEN 400
    ELSE IF h >= 7 THEN 200
    ELSE 100

\* the double nearest to the exact value (h, d), round-half-to-even
RoundToDouble(h, d) ==
    IF h = 0 /\ d = 0 THEN [h |-> 0, d |-> 0]
    ELSE
    LET G  == Ulp(h, d)
        r  == (h * Pow57Mod(G) + d) % G
        r2 == (h * Pow57Mod(2 * G) + d) % (2 * G)
        down == [h |-> h, d |-> d - r]
        up   == [h |-> h, d |-> d + (G - r)]
    IN  IF 2 * r < G THEN down
        ELSE IF 2 * r > G THEN up
        ELSE IF r2 = r THEN down ELSE up

\* the float literal h/100 (0.5 is Float(50))
Float(h) == RoundToDouble(h, 0)

\* a + b on float
FAdd(a, b) == RoundToDouble(a.h + b.h, a.d + b.d)

\* a * n on float, n a small int (the exact product is rounded once)
FMulInt(a, n) == RoundToDouble(a.h * n, a.d * n)

\* a >= b on float
FGe(a, b) == a.h > b.h \/ (a.h = b.h /\ a.d >= b.d)

\* round(a, 2) in hundredths: a is within 2^-45 of h/100, so h is the nearest
round2(a) == a.h

\* a < b on float
FLt(a, b) == ~FGe(a, b)

\* min(a, b) and max(a, b) on float: the second argument only when strictly better
FMin(a, b) == IF FLt(b, a) THEN b ELSE a
FMax(a, b) == IF FLt(a, b) THEN b ELSE a

(***************************************************************************)
(* DemandLetterGenerator.calculate_liability_strength                      *)
(***************************************************************************)
\* mutant: the score is returned without the clamp
clamp_score_unclamped(score) == score

\* min(1.0, max(0.0, score))
clamp_score(score) == FMin(Float(100), FMax(Float(0), score))

\* if cond: score += bonus
add_if(cond, score, bonus) == IF cond THEN FAdd(score, bonus) ELSE score

calculate_liability_strength(cd) ==
    LET liability == Get(cd, "liability_analysis", EmptyDict)
        score0 == Float(50)
        fault == lower(Get(liability, "fault_determination", ""))
        score1 == add_if(Contains(fault, "100%") \/ Contains(fault, "at fault")
                             \/ Contains(fault, "driver 2"),
                         score0, Float(20))
        v0 == Get(liability, "violations", <<>>)
        violations == IF Len(v0) = 0
                      THEN Get(Get(cd, "defendant", EmptyDict), "violations", <<>>)
                      ELSE v0
        score2 == add_if(Len(violations) > 0,
                         score1, FMulInt(Float(10), Min(Len(violations), 2)))
        evidence == Get(liability, "evidence", <<>>)
        evidence_text == IF Len(evidence) > 0 THEN lower(join(" ", evidence)) ELSE lower("")
        score3 == add_if(Contains(evidence_text, "camera") \/ Contains(evidence_text, "video"),
                         score2, Float(15))
        score4 == add_if(Contains(evidence_text, "witness"), score3, Float(10))
        factors == Get(liability, "contributing_factors", <<>>)
        score5 == add_if(Len(factors) > 0,
                         score4, FMulInt(Float(5), Min(Len(factors), 2)))
    IN  clamp_score(score5)

(***************************************************************************)
(* InjurySeverity and SEVERITY_MULTIPLIERS.  A member of the enum is its    *)
(* name; InjurySeverity[name] is its value.  Multipliers are in thousandths *)
(* (3.0 is 3000): every multiplier the code forms is a multiple of 0.125,   *)
(* so thousandths hold it exactly, as the double does.                      *)
(***************************************************************************)
InjurySeverity ==
    [PERMANENT       |-> "permanent",
     DISC_HERNIATION |-> "disc_herniation",
     RADICULOPATHY   |-> "radiculopathy",
     DISC_BULGING    |-> "disc_bulging",
     SOFT_TISSUE     |-> "soft_tissue"]

SEVERITY_MULTIPLIERS ==
    [PERMANENT       |-> <<3000, 5000>>,
     DISC_HERNIATION |-> <<2500, 4000>>,
     RADICULOPATHY   |-> <<2500, 3500>>,
     DISC_BULGING    |-> <<2000, 3000>>,
     SOFT_TISSUE     |-> <<1500, 2500>>]

(***************************************************************************)
(* DemandLetterGenerator.classify_injury_severity                          *)
(***************************************************************************)
permanent_keywords == <<"permanent", "chronic", "irreversible", "uncertain recovery">>

\* the texts the classification searches (lines 105-116)
imaging_text_of(cd) ==
    lower(join(" ", Get(Get(cd, "injuries", EmptyDict), "imaging_findings", <<>>)))

diagnoses_text_of(cd) ==
    lower(join(" ", Get(Get(cd, "injuries", EmptyDict), "diagnoses", <<>>)))

all_text_of(cd) ==
    imaging_text_of(cd) \o Chars(" ") \o diagnoses_text_of(cd) \o Chars(" ")
        \o lower(Get(Get(cd, "injuries", EmptyDict), "prognosis", ""))

\* mutant: disc bulging is tested before radiculopathy
classify_injury_severity_bulging_first(cd) ==
    LET threshold_categories ==
            Get(Get(cd, "ny_serious_injury_analysis", EmptyDict), "threshold_categories", <<>>)
        imaging_text == imaging_text_of(cd)
        all_text == all_text_of(cd)
    IN  IF (\E i \in 1..Len(permanent_keywords) : Contains(all_text, permanent_keywords[i]))
           /\ (\E i \in 1..Len(threshold_categories) :
                  threshold_categories[i] = "Permanent consequential limitation")
        THEN "PERMANENT"
        ELSE IF Contains(imaging_text, "herniation") \/ Contains(imaging_text, "herniated")
        THEN "DISC_HERNIATION"
        ELSE IF Contains(imaging_text, "bulging") \/ Contains(imaging_text, "bulge")
                \/ Contains(imaging_text, "protrusion")
        THEN "DISC_BULGING"
        ELSE IF Contains(all_text, "radiculopathy")
        THEN "RADICULOPATHY"
        ELSE "SOFT_TISSUE"

\* mutant: a permanent keyword alone yields PERMANENT
classify_injury_severity_keyword_only(cd) ==
    LET imaging_text == imaging_text_of(cd)
        all_text == all_text_of(cd)
    IN  IF \E i \in 1..Len(permanent_keywords) : Contains(all_text, permanent_keywords[i])
        THEN "PERMANENT"
        ELSE IF Contains(imaging_text, "herniation") \/ Contains(imaging_text, "herniated")
        THEN "DISC_HERNIATION"
        ELSE IF Contains(all_text, "radiculopathy")
        THEN "RADICULOPATHY"
        ELSE IF Contains(imaging_text, "bulging") \/ Contains(imaging_text, "bulge")
                \/ Contains(imaging_text, "protrusion")
        THEN "DISC_BULGING"
        ELSE "SOFT_TISSUE"

classify_injury_severity(cd) ==
    LET ny_serious == Get(cd, "ny_serious_injury_analysis", EmptyDict)
        threshold_categories == Get(ny_serious, "threshold_categories", <<>>)
        imaging_text == imaging_text_of(cd)
        all_text == all_text_of(cd)
    IN  IF (\E i \in 1..Len(permanent_keywords) : Contains(all_text, permanent_keywords[i]))
           /\ (\E i \in 1..Len(threshold_categories) :
                  threshold_categories[i] = "Permanent consequential limitation")
        THEN "PERMANENT"
        ELSE IF Contains(imaging_text, "herniation") \/ Contains(imaging_text, "herniated")
        THEN "DISC_HERNIATION"
        ELSE IF Contains(all_text, "radiculopathy")
        THEN "RADICULOPATHY"
        ELSE IF Contains(imaging_text, "bulging") \/ Contains(imaging_text, "bulge")
                \/ Contains(imaging_text, "protrusion")
        THEN "DISC_BULGING"
        ELSE "SOFT_TISSUE"

(***************************************************************************)
(* DemandLetterGenerator._parse_bi_limits                                  *)
(*   re.search(r'[\$]?([\d,]+)', s): the leftmost match starts at the first *)
(*   digit or comma (or at a '$' directly before it) and group 1 is the     *)
(*   longest run of digits and commas from there.                           *)
(***************************************************************************)
DIGITS == "0123456789"

DigitChars == {SubSeq(DIGITS, i, i) : i \in 1..10}

DigitValue == [c \in DigitChars |-> (CHOOSE i \in 1..10 : SubSeq(DIGITS, i, i) = c) - 1]

\* int(digits) for a sequence of digit characters; int('') raises ValueError
RECURSIVE int_digits(_)
int_digits(digits) ==
    IF Len(digits) = 0 THEN 0
    ELSE 10 * int_digits(SubSeq(digits, 1, Len(digits) - 1)) + DigitValue[digits[Len(digits)]]

int(digits) == IF Len(digits) = 0 THEN Raise("ValueError") ELSE PyInt(int_digits(digits))

\* the character c is matched by [\d,]
InClass(c) == c \in DigitChars \/ c = ","

\* re.search(...) is not None
has_match(s) == \E i \in 1..Len(s) : InClass(SubSeq(s, i, i))

\* match.group(1) of the leftmost match, as a sequence of characters
match_group1(s) ==
    LET chars == Chars(s)
        b == CHOOSE i \in 1..Len(s) : InClass(chars[i]) /\ \A j \in 1..(i - 1) : ~InClass(chars[j])
        e == CHOOSE i \in b..Len(s) :
                 /\ \A j \in b..i : InClass(chars[j])
                 /\ (i = Len(s) \/ ~InClass(chars[i + 1]))
    IN  SubSeq(chars, b, e)

\* group.replace(',', '')
replace_commas(group) ==
    LET NotComma(c) == c # ","
    IN  SelectSeq(group, NotComma)

_parse_bi_limits(limits_str) ==
    IF Len(limits_str) = 0 THEN None
    ELSE IF has_match(limits_str) THEN int(replace_commas(match_group1(limits_str)))
    ELSE None

(***************************************************************************)
(* amounts.                                                                *)
(*   total_specials, total_demand and the BI limit are whole dollars;      *)
(*   pain_and_suffering is in thousandths of a dollar; multipliers are in  *)
(*   thousandths; the reported liability_strength is in hundredths.        *)
(*   With whole-dollar specials every product and sum below is a multiple  *)
(*   of 1/8 under 2^53, so the doubles of the code hold them exactly, and  *)
(*   round() sees the exact value: Python rounds halves to even.           *)
(***************************************************************************)
\* mutant: halves are rounded up
RoundHalfEven_half_up(n, unit) == (2 * n + unit) \div (2 * unit)

\* round(n / unit): nearest integer, halves to even (n >= 0)
RoundHalfEven(n, unit) ==
    LET q == n \div unit
        r == n % unit
    IN  IF 2 * r < unit THEN q
        ELSE IF 2 * r > unit THEN q + 1
        ELSE IF q % 2 = 0 THEN q ELSE q + 1

\* mutant: the demand is rounded to the nearest 100 dollars
round_to_500_nearest_100(total) == RoundHalfEven(total, 100000) * 100

\* round(total_demand / 500) * 500, total_demand given in thousandths
round_to_500(total) == RoundHalfEven(total, 500000) * 500

\* mutant: the 0.75 bucket adds three quarters of the range to the midpoint
select_multiplier_overshoot(liability_strength, low_mult, high_mult) ==
    IF FGe(liability_strength, Float(90)) THEN high_mult
    ELSE IF FGe(liability_strength, Float(75))
    THEN (low_mult + high_mult) \div 2 + (3 * (high_mult - low_mult)) \div 4
    ELSE IF FGe(liability_strength, Float(50))
    THEN (low_mult + high_mult) \div 2
    ELSE low_mult

\* mutant: the bucket bounds are exclusive (> in place of >=)
select_multiplier_exclusive(liability_strength, low_mult, high_mult) ==
    IF FLt(Float(90), liability_strength) THEN high_mult
    ELSE IF FLt(Float(75), liability_strength)
    THEN (low_mult + high_mult) \div 2 + (high_mult - low_mult) \div 4
    ELSE IF FLt(Float(50), liability_strength)
    THEN (low_mult + high_mult) \div 2
    ELSE low_mult

\* the multiplier selected for a liability strength (lines 206-214)
select_multiplier(liability_strength, low_mult, high_mult) ==
    IF FGe(liability_strength, Float(90)) THEN high_mult
    ELSE IF FGe(liability_strength, Float(75))
    THEN (low_mult + high_mult) \div 2 + (high_mult - low_mult) \div 4
    ELSE IF FGe(liability_strength, Float(50))
    THEN (low_mult + high_mult) \div 2
    ELSE low_mult

\* mutant: the alternate representation is never read
read_total_specials_charges_only(cd) ==
    Get(Get(cd, "medical_bills", EmptyDict), "total_charges", 0)

\* total_specials as read from the case data (lines 189-197)
read_total_specials(cd) ==
    LET bills == Get(cd, "medical_bills", EmptyDict)
        total_charges == Get(bills, "total_charges", 0)
    IN  IF total_charges = 0
        THEN Get(Get(Get(cd, "special_damages", EmptyDict),
                     "medical_expenses", EmptyDict), "total_billed", 0)
        ELSE total_charges

\* mutant: a missing limit reports False
exceeds_coverage_false_default(total_demand, defendant_bi) ==
    IF Falsy(defendant_bi) THEN PyBool(FALSE) ELSE PyBool(total_demand > defendant_bi.value)

\* total_demand > defendant_bi if defendant_bi else None (line 244)
exceeds_coverage(total_demand, defendant_bi) ==
    IF Falsy(defendant_bi) THEN None ELSE PyBool(total_demand > defendant_bi.value)

\* the defendant's BI limit (lines 223-233), or the exception of _parse_bi_limits
defendant_bi_limit(defendant_policy, parsed) ==
    IF IsRaise(parsed) THEN parsed
    ELSE IF Falsy(parsed) THEN PyInt(Get(defendant_policy, "bi_per_person", 0))
    ELSE parsed

read_defendant_bi(cd) ==
    LET coverage == Get(cd, "insurance_coverage", EmptyDict)
        defendant_policy == Get(coverage, "defendant_policy", EmptyDict)
        bi_limits_str == Get(defendant_policy, "bi_limits", "")
    IN  defendant_bi_limit(defendant_policy, _parse_bi_limits(bi_limits_str))

\* the amounts and the stored dict (lines 216-221 and 235-245)
demand_dict(total_specials, sev, low_mult, high_mult, liability_strength, selected_mult, defendant_bi) ==
    LET pain_suffering == total_specials * selected_mult
        total_demand == round_to_500(total_specials * 1000 + pain_suffering)
    IN  [total_specials |-> total_specials,
         severity_classification |-> InjurySeverity[sev],
         multiplier_range |-> <<low_mult, high_mult>>,
         multiplier_used |-> RoundHalfEven(selected_mult, 10) * 10,
         liability_strength |-> round2(liability_strength),
         pain_and_suffering |-> RoundHalfEven(pain_suffering, 10) * 10,
         total_demand |-> total_demand,
         defendant_bi_limit |-> defendant_bi,
         exceeds_coverage |-> exceeds_coverage(total_demand, defendant_bi)]

\* lines 201-247, for the specials, severity, strength and BI limit obtained
demand_for(total_specials, sev, liability_strength, defendant_bi) ==
    IF IsRaise(defendant_bi) THEN defendant_bi
    ELSE demand_dict(total_specials, sev,
                     SEVERITY_MULTIPLIERS[sev][1], SEVERITY_MULTIPLIERS[sev][2],
                     liability_strength,
                     select_multiplier(liability_strength,
                                       SEVERITY_MULTIPLIERS[sev][1],
                                       SEVERITY_MULTIPLIERS[sev][2]),
                     defendant_bi)

(***************************************************************************)
(* DemandLetterGenerator.calculate_demand_amount: the dict it returns and  *)
(* stores in self.demand_calculation, or the exception it raises.          *)
(***************************************************************************)
calculate_demand_amount(cd) ==
    demand_for(read_total_specials(cd),
               classify_injury_severity(cd),
               calculate_liability_strength(cd),
               read_defendant_bi(cd))

(***************************************************************************)
(* The aggregators.                                                        *)
(*   A results folder is the list of its files in the order the directory  *)
(*   iteration yields them; a file is [doc_type, path, content], where     *)
(*   doc_type is the name of its directory and content is Json(value) for  *)
(*   a text json.loads decodes to value, Malformed for a text it rejects.  *)
(*   A decoded object is a dict as above, with these conventions:          *)
(*     - an object whose items() are iterated (diagnosticImaging) is the   *)
(*       list of its <<key, value>> pairs in document order;               *)
(*     - an amount that is summed is a tagged value, PyInt(n) for a number *)
(*       of whole dollars or PyStr(s) for a string;                        *)
(*     - amounts written by the aggregator are whole dollars.              *)
(*   An aggregator object is [class, medical_records, police_reports,      *)
(*   insurance_policies, medical_bills]; the lists of an                   *)
(*   AWSResultsAggregator are named medical_records_text, ...              *)
(***************************************************************************)
Json(value) == [type |-> "json", value |-> value]
Malformed == [type |-> "malformed"]

\* json.loads(content) / json.load(f)
json_loads(content) ==
    IF content.type = "json" THEN content.value ELSE Raise("JSONDecodeError")

DOC_TYPES == <<"MEDICAL_RECORDS", "POLICE_REPORT", "INSURANCE_POLICY", "MEDICAL_BILLS">>

\* the attribute of the aggregator that holds the documents of a doc_type
ListOf ==
    [t \in Range(DOC_TYPES) |->
        CASE t = "MEDICAL_RECORDS" -> "medical_records"
          [] t = "POLICE_REPORT" -> "police_reports"
          [] t = "INSURANCE_POLICY" -> "insurance_policies"
          [] t = "MEDICAL_BILLS" -> "medical_bills"]

\* __init__ of the three aggregator classes
new_aggregator(class) ==
    IF class = "AWSResultsAggregator"
    THEN [class |-> class, medical_records_text |-> <<>>, police_reports_text |-> <<>>,
          insurance_policies_text |-> <<>>, medical_bills_text |-> <<>>]
    ELSE [class |-> class, medical_records |-> <<>>, police_reports |-> <<>>,
          insurance_policies |-> <<>>, medical_bills |-> <<>>]

\* a call in progress: the object, what was printed, and the exception
\* that ended the call (None while it runs and when it returns)
Running(self) == [self |-> self, printed |-> <<>>, raised |-> None]

\* the warning printed for a file json.loads rejects
json_warning(file) == "Warning: Could not parse JSON in " \o file.path

\* JSONResultsAggregator.load_documents: one report.txt (lines 39-53)
json_load_file(run, file) ==
    LET data == json_loads(file.content)
    IN  IF IsRaise(data)
        THEN [run EXCEPT !.printed = Append(@, json_warning(file))]
        ELSE IF file.doc_type \in Range(DOC_TYPES)
        THEN [run EXCEPT !.self[ListOf[file.doc_type]] = Append(@, data)]
        ELSE run

\* JSONResultsAggregator.load_documents
json_load_documents(self, folder) == FoldLeft(json_load_file, Running(self), folder)

\* PICaseAggregator.load_documents: one *.json file of a doc_type directory;
\* json.load is not guarded, so its exception ends the call
pi_load_file(run, file) ==
    IF run.raised # None THEN run
    ELSE LET data == json_loads(file.content)
         IN  IF IsRaise(data)
             THEN [run EXCEPT !.raised = data]
             ELSE [run EXCEPT !.self[ListOf[file.doc_type]] = Append(@, data)]

\* the files of one doc_type directory, in glob order
files_of(folder, doc_type) ==
    LET OfType(file) == file.doc_type = doc_type
    IN  SelectSeq(folder, OfType)

\* PICaseAggregator.load_documents: the four directories in turn
pi_load_directory(run, doc_type_and_folder) ==
    FoldLeft(pi_load_file, run, files_of(doc_type_and_folder[2], doc_type_and_folder[1]))

pi_load_documents(self, folder) ==
    FoldLeft(pi_load_directory, Running(self),
             [i \in 1..Len(DOC_TYPES) |-> <<DOC_TYPES[i], folder>>])

(***************************************************************************)
(* JSONResultsAggregator: the extraction methods.                          *)
(***************************************************************************)
\* the first driver / vehicle of the list with the given vehicle_number
\* (the loop that breaks at the first hit), or None
first_numbered(entries, number) ==
    LET hits == {i \in 1..Len(entries) : Get(entries[i], "vehicle_number", 0) = number}
    IN  IF hits = {} THEN None
        ELSE entries[CHOOSE i \in hits : \A j \in hits : i <= j]

\* extract_patient_info, lines 59-69: one medical record
json_patient_of_record(info, record) ==
    IF "patientName" \in DOMAIN record
    THEN [info EXCEPT !.name = Get(record, "patientName", ""),
                      !.dob = Get(record, "dateOfBirth", ""),
                      !.mrn = Get(record, "medicalRecordNumber", "")]
    ELSE IF "patient_info" \in DOMAIN record
    THEN [info EXCEPT !.name = Get(record.patient_info, "name", ""),
                      !.dob = Get(record.patient_info, "date_of_birth", ""),
                      !.mrn = Get(record.patient_info, "medical_record_number", "")]
    ELSE info

\* extract_patient_info, lines 72-77: one police report
json_address_of_report(info, report) ==
    LET driver == first_numbered(Get(report, "drivers", <<>>), 1)
    IN  IF driver = None THEN info
        ELSE [info EXCEPT !.address = Get(driver, "address", "")]

json_extract_patient_info(self) ==
    FoldLeft(json_address_of_report,
             FoldLeft(json_patient_of_record,
                      [name |-> "", dob |-> "", address |-> "", mrn |-> ""],
                      self.medical_records),
             self.police_reports)

\* f"{cross}, {borough}, {county}".strip(", ")
json_location(location) ==
    strip(Get(location, "cross_street", "") \o ", " \o Get(location, "borough", "")
              \o ", " \o Get(location, "county", ""),
          {",", " "})

\* extract_accident_info, lines 94-113: one police report.  The location of
\* a report is a dict.
json_accident_of_report(info, report) ==
    LET report_info == Get(report, "report_info", EmptyDict)
        accident == Get(report, "accident_details", EmptyDict)
    IN  [report_number |-> Get(report_info, "report_number", ""),
         date |-> Get(accident, "date", Get(report_info, "date_prepared", "")),
         time |-> Get(accident, "time", ""),
         weather |-> Get(accident, "weather_conditions", ""),
         road_conditions |-> Get(accident, "road_conditions", ""),
         location |-> json_location(Get(accident, "location", EmptyDict)),
         description |-> Get(report, "narrative", "")]

json_extract_accident_info(self) ==
    FoldLeft(json_accident_of_report,
             [date |-> "", time |-> "", location |-> "", report_number |-> "",
              description |-> "", weather |-> "", road_conditions |-> ""],
             self.police_reports)

\* lines 153-157: the entry appended for one cited violation, if any
json_violation_entries(violation) ==
    LET vtl == Get(violation, "vtl_section", "")
        desc == Get(violation, "description", "")
    IN  IF vtl # "" \/ desc # ""
        THEN <<strip("VTL " \o vtl \o " - " \o desc, {" ", "-"})>>
        ELSE <<>>

json_append_violation(violations, violation) ==
    violations \o json_violation_entries(violation)

\* lines 136-148: the vehicle and insurance texts of vehicle 2
json_vehicle_text(vehicle) ==
    strip(Get(vehicle, "year", "") \o " " \o Get(vehicle, "make", "") \o " "
              \o Get(vehicle, "model", ""), {" "})

json_insurance_text(insurance) ==
    strip(Get(insurance, "company", "") \o " Policy #" \o Get(insurance, "policy_number", ""),
          {" "})

json_defendant_vehicle(info, vehicle) ==
    IF vehicle = None THEN info
    ELSE [info EXCEPT !.vehicle = json_vehicle_text(vehicle),
                      !.insurance = json_insurance_text(Get(vehicle, "insurance", EmptyDict))]

json_defendant_driver(info, driver) ==
    IF driver = None THEN info ELSE [info EXCEPT !.name = Get(driver, "name", "")]

\* extract_defendant_info, lines 127-159: one police report
json_defendant_of_report(info, report) ==
    [json_defendant_vehicle(
         json_defendant_driver(info, first_numbered(Get(report, "drivers", <<>>), 2)),
         first_numbered(Get(report, "vehicles", <<>>), 2))
     EXCEPT !.violations =
                FoldLeft(json_append_violation, @,
                         Get(Get(report, "fault_indicators", EmptyDict), "violations_cited", <<>>)),
            !.contributing_factors =
                Get(Get(report, "fault_indicators", EmptyDict), "contributing_factors", <<>>)]

json_extract_defendant_info(self) ==
    FoldLeft(json_defendant_of_report,
             [name |-> "", vehicle |-> "", insurance |-> "", violations |-> <<>>,
              contributing_factors |-> <<>>],
             self.police_reports)

\* extract_injuries, lines 179-185: one entry of record["assessment"]
json_add_assessment(injuries, diagnosis) ==
    [injuries EXCEPT
        !.diagnoses = IF Get(diagnosis, "diagnosis", "") # ""
                      THEN Append(@, diagnosis.diagnosis) ELSE @,
        !.icd_codes = IF Get(diagnosis, "icd10Code", "") # ""
                      THEN Append(@, diagnosis.icd10Code) ELSE @]

\* lines 192-198: the body parts named by one diagnosis text
json_body_parts_of(diag) ==
    (IF InLower("cervical", diag) THEN <<"Cervical Spine (Neck)">> ELSE <<>>)
    \o (IF InLower("lumbar", diag) THEN <<"Lumbar Spine (Lower Back)">> ELSE <<>>)
    \o (IF InLower("shoulder", diag) \/ InLower("ac joint", diag)
        THEN <<"Shoulder">> ELSE <<>>)

json_add_body_parts(body_parts, diag) == body_parts \o json_body_parts_of(diag)

\* lines 201-204: one item of record["diagnosticImaging"]
json_add_imaging(findings, item) ==
    IF item[2] # "" THEN Append(findings, item[1] \o ": " \o item[2]) ELSE findings

\* lines 208-214: one entry of record["diagnoses"] (the alternative format)
json_add_diagnosis(injuries, diag) ==
    [injuries EXCEPT
        !.diagnoses = Append(@, Get(diag, "description", "")),
        !.icd_codes = IF Get(diag, "icd_code", "") # ""
                      THEN Append(@, diag.icd_code) ELSE @,
        !.body_parts = IF Get(diag, "body_part", "") # ""
                       THEN Append(@, diag.body_part) ELSE @]

\* lines 177-204: a record in the structured format, after its assessment
json_structured_rest(injuries, record) ==
    [injuries EXCEPT
        !.treatment_plan = Get(record, "plan", <<>>),
        !.prognosis = Get(record, "prognosis", ""),
        !.body_parts = FoldLeft(json_add_body_parts, @, injuries.diagnoses),
        !.imaging_findings =
            FoldLeft(json_add_imaging, @, Get(record, "diagnosticImaging", <<>>))]

\* lines 177-214: the diagnoses of one record, in either format
json_diagnoses_of_record(injuries, record) ==
    IF "assessment" \in DOMAIN record
    THEN json_structured_rest(FoldLeft(json_add_assessment, injuries, record.assessment),
                              record)
    ELSE IF "diagnoses" \in DOMAIN record
    THEN FoldLeft(json_add_diagnosis, injuries, record.diagnoses)
    ELSE injuries

\* lines 217-221: functional_limitations.work_restrictions, a list
json_functional_restrictions(injuries, record) ==
    LET restrictions ==
            Get(Get(record, "functional_limitations", EmptyDict), "work_restrictions", <<>>)
    IN  IF Len(restrictions) > 0
        THEN [injuries EXCEPT !.work_restrictions = join(", ", restrictions)]
        ELSE injuries

\* lines 224-226: the last plan item that mentions "no work"
json_no_work_item(work_restrictions, item) ==
    IF InLower("no work", item) THEN item ELSE work_restrictions

json_plan_restrictions(injuries) ==
    [injuries EXCEPT
        !.work_restrictions = FoldLeft(json_no_work_item, @, injuries.treatment_plan)]

\* extract_injuries, lines 175-226: one medical record
json_injuries_of_record(injuries, record) ==
    json_plan_restrictions(
        json_functional_restrictions(json_diagnoses_of_record(injuries, record), record))

\* extract_injuries before its deduplication (lines 165-226)
json_collect_injuries(self) ==
    FoldLeft(json_injuries_of_record,
             [diagnoses |-> <<>>, icd_codes |-> <<>>, body_parts |-> <<>>,
              treatment_plan |-> <<>>, work_restrictions |-> "", prognosis |-> "",
              imaging_findings |-> <<>>],
             self.medical_records)

\* lines 229-231; hash_order gives the iteration order of each set built
json_deduplicate(injuries, hash_order) ==
    [injuries EXCEPT !.icd_codes = list_set(@, hash_order.icd_codes),
                     !.body_parts = list_set(@, hash_order.body_parts),
                     !.diagnoses = fromkeys(@)]

json_extract_injuries(self, hash_order) ==
    json_deduplicate(json_collect_injuries(self), hash_order)

\* extract_medical_bills, lines 250-253: the provider of one bill
json_add_provider(providers, provider_name) ==
    IF provider_name # "" /\ ~InList(provider_name, providers)
    THEN Append(providers, provider_name) ELSE providers

\* the amounts of a billing_summary that the aggregators add up
summed_amounts(summary) ==
    <<Get(summary, "total_charges", PyInt(0)), Get(summary, "total_payments", PyInt(0)),
      Get(summary, "balance_due", PyInt(0)), Get(summary, "total_adjustments", PyInt(0))>>

\* total += amount raises TypeError for an amount that is a str
raises_type_error(amounts) == \E i \in 1..Len(amounts) : amounts[i].type # "int"

\* lines 256-260: the four sums after one bill
json_add_summary(bills, amounts) ==
    [bills EXCEPT !.total_charges = @ + amounts[1].value,
                  !.total_paid = @ + amounts[2].value,
                  !.total_owed = @ + amounts[3].value,
                  !.total_adjustments = @ + amounts[4].value]

\* lines 263-272: one line item of a bill
json_add_line_item(bills, item) ==
    [bills EXCEPT
        !.cpt_codes = IF Get(item, "cpt_code", "") # ""
                      THEN Append(@, item.cpt_code) ELSE @,
        !.line_items = Append(@, [date |-> Get(item, "date_of_service", ""),
                                  cpt |-> Get(item, "cpt_code", ""),
                                  description |-> Get(item, "description", ""),
                                  charge |-> Get(item, "total_charge", 0)])]

\* lines 275-286: the lien entry of one bill, total_owed being the running
\* total after this bill
json_lien_entries(lien_info, provider_name, total_owed) ==
    IF Get(lien_info, "lien_filed", FALSE)
    THEN <<[provider |-> Get(lien_info, "lien_holder", provider_name),
            amount |-> Get(lien_info, "lien_amount", total_owed)]>>
    ELSE IF total_owed > 0
    THEN <<[provider |-> provider_name, amount |-> total_owed]>>
    ELSE <<>>

\* lines 262-286, after the sums of the bill were added
json_items_and_liens(bills, bill, provider_name) ==
    [FoldLeft(json_add_line_item, bills, Get(bill, "line_items", <<>>))
     EXCEPT !.liens = @ \o json_lien_entries(Get(bill, "lien_info", EmptyDict),
                                             provider_name, bills.total_owed)]

\* lines 250-286, for the provider name of the bill
json_add_bill_of(bills, bill, provider_name) ==
    json_items_and_liens(
        json_add_summary([bills EXCEPT !.providers = json_add_provider(@, provider_name)],
                         summed_amounts(Get(bill, "billing_summary", EmptyDict))),
        bill, provider_name)

\* extract_medical_bills, lines 248-286: one bill; an exception raised for
\* a bill ends the loop
json_add_bill(bills, bill) ==
    IF IsRaise(bills) THEN bills
    ELSE IF raises_type_error(summed_amounts(Get(bill, "billing_summary", EmptyDict)))
    THEN Raise("TypeError")
    ELSE json_add_bill_of(bills, bill,
                          Get(Get(bill, "billing_provider", EmptyDict), "name", ""))

\* extract_medical_bills before line 288
json_collect_bills(self) ==
    FoldLeft(json_add_bill,
             [providers |-> <<>>, total_charges |-> 0, total_paid |-> 0, total_owed |-> 0,
              total_adjustments |-> 0, liens |-> <<>>, cpt_codes |-> <<>>,
              line_items |-> <<>>],
             self.medical_bills)

\* line 288
json_deduplicate_cpt(bills, hash_order) ==
    IF IsRaise(bills) THEN bills
    ELSE [bills EXCEPT !.cpt_codes = list_set(@, hash_order.cpt_codes)]

json_extract_medical_bills(self, hash_order) ==
    json_deduplicate_cpt(json_collect_bills(self), hash_order)

\* extract_insurance_coverage, lines 304-341: policy_data of one policy
json_policy_data(policy_info, coverages) ==
    LET bi == Get(coverages, "bodily_injury_liability", EmptyDict)
        pip == Get(coverages, "personal_injury_protection_no_fault", EmptyDict)
        sum_coverage == Get(coverages, "underinsured_motorist_sum", EmptyDict)
        bi_per_person == Get(bi, "per_person", 0)
        pip_total == Get(pip, "basic_pip", 0) + Get(pip, "additional_pip", 0)
        sum_per_person == Get(sum_coverage, "per_person", 0)
    IN  [carrier |-> Get(policy_info, "insurance_company", ""),
         policy_number |-> Get(policy_info, "policy_number", ""),
         bi_limits |-> IF bi_per_person # 0
                       THEN "$" \o format_thousands(bi_per_person) \o "/"
                                \o format_thousands(Get(bi, "per_accident", 0))
                       ELSE "",
         pip_limits |-> IF pip_total # 0 THEN "$" \o format_thousands(pip_total) ELSE "",
         sum_limits |-> IF sum_per_person # 0
                        THEN "$" \o format_thousands(sum_per_person) \o "/"
                                 \o format_thousands(Get(sum_coverage, "per_accident", 0))
                        ELSE "",
         pip_amount |-> pip_total,
         sum_amount |-> sum_per_person,
         um_amount |-> Get(Get(coverages, "uninsured_motorist", EmptyDict),
                           "bodily_injury_per_person", 0)]

\* lines 344-345: the policy is taken to be the plaintiff's
json_is_plaintiff_policy(policy) ==
    \/ InLower("rodriguez", Get(Get(policy, "named_insured", EmptyDict), "name", ""))
    \/ InLower("maria", Get(Get(policy, "named_insured", EmptyDict), "name", ""))

\* lines 343-351, for the policy_data of the policy
json_assign_policy(coverage, policy, policy_data) ==
    IF json_is_plaintiff_policy(policy)
    THEN [coverage EXCEPT !.plaintiff_policy = policy_data,
                          !.pip_available = policy_data.pip_amount,
                          !.sum_available = policy_data.sum_amount,
                          !.um_available = policy_data.um_amount]
    ELSE [coverage EXCEPT !.defendant_policy = policy_data]

\* lines 354-356
json_note_minimum(coverage, policy) ==
    IF Get(Get(policy, "liability_analysis", EmptyDict), "meets_ny_minimum", FALSE)
    THEN [coverage EXCEPT !.meets_ny_minimum = TRUE] ELSE coverage

\* extract_insurance_coverage, lines 303-356: one policy
json_add_policy(coverage, policy) ==
    json_note_minimum(
        json_assign_policy(coverage, policy,
                           json_policy_data(Get(policy, "policy_info", EmptyDict),
                                            Get(policy, "coverages", EmptyDict))),
        policy)

\* lines 358-361
json_total_coverage(coverage) ==
    [coverage EXCEPT !.total_available_coverage = coverage.pip_available + coverage.sum_available]

json_extract_insurance_coverage(self) ==
    json_total_coverage(
        FoldLeft(json_add_policy,
                 [plaintiff_policy |-> EmptyDict, defendant_policy |-> EmptyDict,
                  pip_available |-> 0, sum_available |-> 0, um_available |-> 0,
                  total_available_coverage |-> 0, meets_ny_minimum |-> FALSE],
                 self.insurance_policies))

\* mutant: no evidence is collected from the report
json_evidence_of_nothing(report) == <<>>

\* analyze_liability, lines 383-396: the evidence of one police report
json_evidence_of(report) ==
    (IF Get(report, "diagram_present", FALSE) THEN <<"Accident diagram">> ELSE <<>>)
    \o (IF Get(report, "photos_taken", FALSE) THEN <<"Photos taken at scene">> ELSE <<>>)
    \o (IF Len(Get(report, "witnesses", <<>>)) > 0
        THEN <<str(Len(report.witnesses)) \o " witness statement(s)">> ELSE <<>>)
    \o (IF InLower("traffic camera", Get(report, "narrative", ""))
           \/ InLower("camera footage", Get(report, "narrative", ""))
        THEN <<"Traffic camera footage">> ELSE <<>>)

\* analyze_liability, lines 375-396: one police report
json_liability_of_report(liability, report) ==
    [liability EXCEPT
        !.fault_determination =
            Get(Get(report, "fault_indicators", EmptyDict), "fault_determination", ""),
        !.at_fault_party =
            Get(Get(report, "fault_indicators", EmptyDict), "apparent_fault", ""),
        !.contributing_factors =
            Get(Get(report, "fault_indicators", EmptyDict), "contributing_factors", <<>>),
        !.evidence = @ \o json_evidence_of(report)]

json_analyze_liability(self) ==
    FoldLeft(json_liability_of_report,
             [fault_determination |-> "", at_fault_party |-> "",
              contributing_factors |-> <<>>, evidence |-> <<>>,
              liability_percentage |-> [plaintiff |-> 0, defendant |-> 100]],
             self.police_reports)

LIKELY_MEETS ==
    "Case likely meets NY serious injury threshold based on documented injuries and limitations."
ADDITIONAL_DOCUMENTATION ==
    "Additional documentation may be needed to establish serious injury threshold."

\* analyze_ny_serious_injury, lines 412-414
json_threshold_of_restrictions(analysis, work_restrictions) ==
    IF work_restrictions # ""
    THEN [analysis EXCEPT
             !.threshold_categories =
                 Append(@, "90/180 Day Rule - Substantial limitation of daily activities"),
             !.supporting_evidence = Append(@, "Work restriction: " \o work_restrictions)]
    ELSE analysis

\* lines 417-424: one diagnosis
json_threshold_of_diagnosis(analysis, diag) ==
    [analysis EXCEPT
        !.threshold_categories =
            @ \o (IF InLower("radiculopathy", diag)
                  THEN <<"Significant limitation of use of body function/system">> ELSE <<>>)
              \o (IF InLower("fracture", diag) THEN <<"Fracture">> ELSE <<>>),
        !.supporting_evidence =
            @ \o (IF InLower("radiculopathy", diag) THEN <<"Radiculopathy diagnosis">> ELSE <<>>)
              \o (IF InLower("fracture", diag) THEN <<"Fracture: " \o diag>> ELSE <<>>)]

\* lines 427-433: one imaging finding
json_threshold_of_finding(analysis, finding) ==
    [analysis EXCEPT
        !.threshold_categories =
            @ \o (IF InLower("bulging", finding) \/ InLower("herniation", finding)
                  THEN <<"Permanent consequential limitation">> ELSE <<>>),
        !.supporting_evidence =
            @ \o (IF InLower("bulging", finding) \/ InLower("herniation", finding)
                  THEN <<"Disc pathology: " \o finding>> ELSE <<>>)
              \o (IF InLower("tear", finding)
                  THEN <<"Soft tissue damage: " \o finding>> ELSE <<>>)]

\* lines 436-438
json_threshold_of_prognosis(analysis, prognosis) ==
    IF prognosis # "" /\ (InLower("uncertain", prognosis) \/ InLower("permanent", prognosis))
    THEN [analysis EXCEPT !.supporting_evidence = Append(@, "Prognosis: " \o prognosis)]
    ELSE analysis

\* analyze_ny_serious_injury before its deduplication (lines 402-438)
json_collect_threshold(injuries) ==
    json_threshold_of_prognosis(
        FoldLeft(json_threshold_of_finding,
                 FoldLeft(json_threshold_of_diagnosis,
                          json_threshold_of_restrictions(
                              [threshold_categories |-> <<>>, supporting_evidence |-> <<>>,
                               meets_threshold |-> FALSE, notes |-> ""],
                              injuries.work_restrictions),
                          injuries.diagnoses),
                 injuries.imaging_findings),
        injuries.prognosis)

\* lines 441-447, for the deduplicated categories
json_conclude_threshold(analysis, categories) ==
    [analysis EXCEPT
        !.threshold_categories = categories,
        !.meets_threshold = Len(categories) > 0,
        !.notes = IF Len(categories) > 0 THEN LIKELY_MEETS ELSE ADDITIONAL_DOCUMENTATION]

json_conclude(analysis, hash_order) ==
    json_conclude_threshold(analysis,
                            list_set(analysis.threshold_categories,
                                     hash_order.threshold_categories))

\* analyze_ny_serious_injury, for the injuries its call of extract_injuries gives
json_analyze_ny_serious_injury(injuries, hash_order) ==
    json_conclude(json_collect_threshold(injuries), hash_order)

\* calculate_damages, for the bills its call of extract_medical_bills gives
json_calculate_damages(bills) ==
    [medical_expenses |-> [total_billed |-> bills.total_charges,
                           paid_by_insurance |-> bills.total_paid,
                           adjustments |-> bills.total_adjustments,
                           outstanding |-> bills.total_owed,
                           liens |-> bills.liens],
     lost_wages |-> [estimated |-> 0,
                     notes |-> "To be calculated based on employment records"],
     total_special_damages |-> bills.total_charges]

\* generate_recommended_actions, lines 481-486: one item of the plan
json_plan_actions(actions, item) ==
    actions
    \o (IF InLower("mri", item) /\ ~InLower("mri", join(" ", actions))
        THEN <<"Schedule MRI as recommended in treatment plan">> ELSE <<>>)
    \o (IF InLower("follow up", item) /\ InLower("orthopedic", item)
        THEN <<"Schedule orthopedic follow-up appointment">> ELSE <<>>)

\* f"{amount:,.2f}" for an amount of whole dollars
format_money(amount) == format_thousands(amount) \o ".00"

\* mutant: the No-Fault claim placed after the closing standard action
json_generate_recommended_actions_claim_last(injuries, bills, coverage) ==
    FoldLeft(json_plan_actions, <<>>, injuries.treatment_plan)
    \o (IF injuries.work_restrictions # ""
        THEN <<"Obtain employment records for lost wage calculation">> ELSE <<>>)
    \o (IF bills.total_owed > 0
        THEN <<"Verify medical liens totaling $" \o format_money(bills.total_owed)>>
        ELSE <<>>)
    \o <<"Request traffic camera footage via FOIL request",
         "Send preservation letter to defendant's insurance carrier",
         "Request certified copy of police report",
         "Obtain complete medical records from all treating providers",
         "Consider demand letter after maximum medical improvement">>
    \o (IF coverage.pip_available > 0
        THEN <<"File No-Fault claim (PIP available: $"
                   \o format_money(coverage.pip_available) \o ")">>
        ELSE <<>>)

\* generate_recommended_actions (lines 472-510), for the sections its calls of
\* extract_injuries, extract_medical_bills and extract_insurance_coverage give
json_generate_recommended_actions(injuries, bills, coverage) ==
    FoldLeft(json_plan_actions, <<>>, injuries.treatment_plan)
    \o (IF injuries.work_restrictions # ""
        THEN <<"Obtain employment records for lost wage calculation">> ELSE <<>>)
    \o (IF bills.total_owed > 0
        THEN <<"Verify medical liens totaling $" \o format_money(bills.total_owed)>>
        ELSE <<>>)
    \o <<"Request traffic camera footage via FOIL request",
         "Send preservation letter to defendant's insurance carrier",
         "Request certified copy of police report",
         "Obtain complete medical records from all treating providers">>
    \o (IF coverage.pip_available > 0
        THEN <<"File No-Fault claim (PIP available: $"
                   \o format_money(coverage.pip_available) \o ")">>
        ELSE <<>>)
    \o <<"Consider demand letter after maximum medical improvement">>

\* the orders in which the sets built by one process may iterate, for the
\* lists collected from its documents
json_orders_of(injuries, bills) ==
    {[icd_codes |-> i, body_parts |-> b, cpt_codes |-> c, threshold_categories |-> t] :
        i \in orders(injuries.icd_codes),
        b \in orders(injuries.body_parts),
        c \in orders(IF IsRaise(bills) THEN <<>> ELSE bills.cpt_codes),
        t \in orders(json_collect_threshold(injuries).threshold_categories)}

json_hash_orders(self) == json_orders_of(json_collect_injuries(self), json_collect_bills(self))

\* generate_summary after load_documents (lines 516-538), for the sections
\* extracted: the summary, or the exception raised by extract_medical_bills.
\* generated_date is the clock reading now.
json_summary_of(self, hash_order, now, injuries, bills, coverage) ==
    IF IsRaise(bills) THEN bills
    ELSE [case_id |-> "results",
          generated_date |-> now,
          extraction_type |-> "structured_json",
          document_counts |-> [medical_records |-> Len(self.medical_records),
                               police_reports |-> Len(self.police_reports),
                               insurance_policies |-> Len(self.insurance_policies),
                               medical_bills |-> Len(self.medical_bills)],
          plaintiff |-> json_extract_patient_info(self),
          defendant |-> json_extract_defendant_info(self),
          accident |-> json_extract_accident_info(self),
          injuries |-> injuries,
          medical_bills |-> bills,
          insurance_coverage |-> coverage,
          liability_analysis |-> json_analyze_liability(self),
          ny_serious_injury_analysis |-> json_analyze_ny_serious_injury(injuries, hash_order),
          special_damages |-> json_calculate_damages(bills),
          recommended_actions |-> json_generate_recommended_actions(injuries, bills, coverage)]

\* JSONResultsAggregator.generate_summary (lines 512-538), load_documents
\* having ended as run: the summary returned, or the exception raised
json_generate_summary(run, hash_order, now) ==
    json_summary_of(run.self, hash_order, now,
                    json_extract_injuries(run.self, hash_order),
                    json_extract_medical_bills(run.self, hash_order),
                    json_extract_insurance_coverage(run.self))

(***************************************************************************)
(* PICaseAggregator: the extraction methods.  Its folder holds the files   *)
(* <case_folder>/<DOC_TYPE>/*.json; a file is [doc_type, path, content] as *)
(* above, in glob order within its directory.  An object whose items() are *)
(* iterated (treatment_summary) is the list of its <<key, value>> pairs.   *)
(***************************************************************************)
\* the last driver of the list with the given vehicle_number (the loop that
\* does not break), or None
last_numbered(entries, number) ==
    LET hits == {i \in 1..Len(entries) : Get(entries[i], "vehicle_number", 0) = number}
    IN  IF hits = {} THEN None
        ELSE entries[CHOOSE i \in hits : \A j \in hits : i >= j]

\* extract_plaintiff_info, lines 97-101: the first medical record
pi_plaintiff_of_records(plaintiff, medical_records) ==
    IF Len(medical_records) = 0 THEN plaintiff
    ELSE LET patient == Get(medical_records[1], "patient_info", EmptyDict)
         IN  [plaintiff EXCEPT !.name = Get(patient, "name", ""),
                               !.date_of_birth = Get(patient, "date_of_birth", ""),
                               !.age_at_accident = Get(patient, "age_at_visit", 0)]

\* lines 104-108, for driver 1 of the first police report
pi_plaintiff_of_driver(plaintiff, driver) ==
    IF driver = None THEN plaintiff
    ELSE [plaintiff EXCEPT !.address = Get(driver, "address", ""),
                           !.phone = Get(driver, "phone", "")]

pi_plaintiff_of_reports(plaintiff, police_reports) ==
    IF Len(police_reports) = 0 THEN plaintiff
    ELSE pi_plaintiff_of_driver(plaintiff,
                                last_numbered(Get(police_reports[1], "drivers", <<>>), 1))

pi_extract_plaintiff_info(self) ==
    pi_plaintiff_of_reports(
        pi_plaintiff_of_records([name |-> "", date_of_birth |-> "", age_at_accident |-> 0,
                                 address |-> "", phone |-> ""],
                                self.medical_records),
        self.police_reports)

\* extract_accident_info, lines 177-189: the first police report
pi_accident_of_report(report, accident_details, location, report_info) ==
    [date |-> Get(accident_details, "date", ""),
     time |-> Get(accident_details, "time", ""),
     location |-> Get(location, "street_address", "") \o " at "
                      \o Get(location, "cross_street", ""),
     borough |-> Get(location, "borough", ""),
     weather |-> Get(accident_details, "weather_conditions", ""),
     road_conditions |-> Get(accident_details, "road_conditions", ""),
     description |-> Get(report, "narrative", ""),
     police_report_number |-> Get(report_info, "report_number", ""),
     precinct |-> Get(report_info, "precinct", "")]

pi_extract_accident_info(self) ==
    IF Len(self.police_reports) = 0
    THEN [date |-> "", time |-> "", location |-> "", borough |-> "", weather |-> "",
          road_conditions |-> "", description |-> "", police_report_number |-> "",
          precinct |-> ""]
    ELSE pi_accident_of_report(
             self.police_reports[1],
             Get(self.police_reports[1], "accident_details", EmptyDict),
             Get(Get(self.police_reports[1], "accident_details", EmptyDict),
                 "location", EmptyDict),
             Get(self.police_reports[1], "report_info", EmptyDict))

\* extract_injuries, lines 209-214
pi_diag_entry(diagnosis) ==
    [description |-> Get(diagnosis, "description", ""),
     icd_code |-> Get(diagnosis, "icd_code", ""),
     body_part |-> Get(diagnosis, "body_part", ""),
     is_primary |-> Get(diagnosis, "is_primary", FALSE)]

\* lines 208-223: one diagnosis of a record; icd_codes and body_parts hold
\* what was added to the two sets, in the order of the add() calls
pi_add_diagnosis(injuries, diagnosis) ==
    [injuries EXCEPT
        !.all_diagnoses = Append(@, pi_diag_entry(diagnosis)),
        !.icd_codes = IF Get(diagnosis, "icd_code", "") # ""
                      THEN Append(@, diagnosis.icd_code) ELSE @,
        !.body_parts_affected = IF Get(diagnosis, "body_part", "") # ""
                                THEN Append(@, diagnosis.body_part) ELSE @,
        !.primary_diagnoses = IF Get(diagnosis, "is_primary", FALSE)
                              THEN Append(@, pi_diag_entry(diagnosis)) ELSE @]

pi_injuries_of_record(injuries, record) ==
    FoldLeft(pi_add_diagnosis, injuries, Get(record, "diagnoses", <<>>))

\* extract_injuries before the sets are listed (lines 195-223)
pi_collect_injuries(self) ==
    FoldLeft(pi_injuries_of_record,
             [primary_diagnoses |-> <<>>, all_diagnoses |-> <<>>, icd_codes |-> <<>>,
              body_parts_affected |-> <<>>, injury_summary |-> ""],
             self.medical_records)

\* lines 230-232
pi_injury_summary(primary_diagnoses) ==
    IF Len(primary_diagnoses) > 0
    THEN "Primary injuries: "
             \o join("; ", [i \in 1..Len(primary_diagnoses) |->
                               primary_diagnoses[i].description])
    ELSE ""

\* lines 225-232; hash_order gives the iteration order of each set
pi_list_sets(injuries, hash_order) ==
    [injuries EXCEPT
        !.icd_codes = list_set(@, hash_order.icd_codes),
        !.body_parts_affected = list_set(@, hash_order.body_parts),
        !.injury_summary = pi_injury_summary(injuries.primary_diagnoses)]

pi_extract_injuries(self, hash_order) ==
    pi_list_sets(pi_collect_injuries(self), hash_order)

\* the orders in which the sets of extract_injuries may iterate in a process
pi_orders_of(injuries, categories_found) ==
    {[icd_codes |-> i, body_parts |-> b, categories |-> c] :
        i \in orders(injuries.icd_codes), b \in orders(injuries.body_parts_affected),
        c \in orders(categories_found)}

\* s.replace(old, ""), for a str old that is not empty
RECURSIVE remove_all(_, _)
remove_all(s, old) ==
    IF Len(s) < Len(old) THEN s
    ELSE IF SubSeq(s, 1, Len(old)) = old
    THEN remove_all(SubSeq(s, Len(old) + 1, Len(s)), old)
    ELSE SubSeq(s, 1, 1) \o remove_all(SubSeq(s, 2, Len(s)), old)

\* c.upper() for one character
upper_char(c) ==
    LET hits == {i \in 1..Len(LOWERCASE) : SubSeq(LOWERCASE, i, i) = c}
    IN  IF hits = {} THEN c ELSE SubSeq(UPPERCASE, CHOOSE i \in hits : TRUE, CHOOSE i \in hits : TRUE)

\* c is a letter
is_letter(c) == upper_char(c) # c \/ lower_char(c) # c

\* s.replace("_", " ").title(): a letter is upper case after a character
\* that is no letter and lower case after a letter
RECURSIVE title_after(_, _)
title_after(s, after_letter) ==
    IF Len(s) = 0 THEN ""
    ELSE LET c == IF SubSeq(s, 1, 1) = "_" THEN " " ELSE SubSeq(s, 1, 1)
         IN  (IF after_letter THEN lower_char(c) ELSE upper_char(c))
             \o title_after(SubSeq(s, 2, Len(s)), is_letter(c))

\* line 338
clean_category(category) == title_after(remove_all(category, "_charges"), FALSE)

\* lines 336-339: one item of treatment_summary, an int amount
pi_add_category(breakdown, item) ==
    IF item[2] > 0
    THEN [c \in DOMAIN breakdown \cup {clean_category(item[1])} |->
             IF c = clean_category(item[1])
             THEN Get(breakdown, c, 0) + item[2]
             ELSE breakdown[c]]
    ELSE breakdown

\* lines 317-321: one payment of a bill
pi_add_payment(specials, payment) ==
    IF InStr("No-Fault", Get(payment, "payment_type", ""))
    THEN [specials EXCEPT !.total_paid_by_no_fault = @ + Get(payment, "amount", 0)]
    ELSE IF InStr("Health", Get(payment, "payer", ""))
    THEN [specials EXCEPT !.total_paid_by_health_insurance = @ + Get(payment, "amount", 0)]
    ELSE specials

\* the lien amount of a bill that lines 324-325 add and line 332 reports
pi_lien_amount(lien) ==
    IF Get(lien, "lien_filed", FALSE) THEN Get(lien, "lien_amount", 0) ELSE 0

\* the amounts of a billing_summary that calculate_special_damages adds up
pi_summed_amounts(summary) ==
    <<Get(summary, "total_charges", PyInt(0)), Get(summary, "total_adjustments", PyInt(0)),
      Get(summary, "balance_due", PyInt(0))>>

\* lines 311-339, for the three amounts of the summary of the bill
pi_add_bill_of(specials, bill, amounts) ==
    [FoldLeft(pi_add_payment, specials, Get(bill, "payments_received", <<>>))
     EXCEPT !.total_medical_charges = @ + amounts[1].value,
            !.total_adjustments = @ + amounts[2].value,
            !.total_outstanding_balance = @ + amounts[3].value,
            !.total_liens = @ + pi_lien_amount(Get(bill, "lien_info", EmptyDict)),
            !.breakdown_by_provider =
                Append(@, [provider |-> Get(Get(bill, "billing_provider", EmptyDict),
                                            "name", ""),
                           total_charges |-> amounts[1].value,
                           balance_due |-> amounts[3].value,
                           lien_amount |-> pi_lien_amount(Get(bill, "lien_info", EmptyDict))]),
            !.breakdown_by_category =
                FoldLeft(pi_add_category, @, Get(bill, "treatment_summary", <<>>))]

\* calculate_special_damages, lines 306-339: one bill; total += amount
\* raises TypeError for an amount that is a str, which ends the loop
pi_add_bill(specials, bill) ==
    IF IsRaise(specials) THEN specials
    ELSE IF raises_type_error(pi_summed_amounts(Get(bill, "billing_summary", EmptyDict)))
    THEN Raise("TypeError")
    ELSE pi_add_bill_of(specials, bill,
                        pi_summed_amounts(Get(bill, "billing_summary", EmptyDict)))

\* lines 341-343
pi_no_fault(specials) ==
    IF IsRaise(specials) THEN specials
    ELSE [specials EXCEPT
             !.no_fault_remaining = Max(0, 50000 - specials.total_paid_by_no_fault),
             !.no_fault_exhausted = Max(0, 50000 - specials.total_paid_by_no_fault) = 0]

pi_calculate_special_damages(self) ==
    pi_no_fault(
        FoldLeft(pi_add_bill,
                 [total_medical_charges |-> 0, total_paid_by_no_fault |-> 0,
                  total_paid_by_health_insurance |-> 0, total_adjustments |-> 0,
                  total_outstanding_balance |-> 0, total_liens |-> 0,
                  no_fault_exhausted |-> FALSE, no_fault_remaining |-> 50000,
                  breakdown_by_provider |-> <<>>, breakdown_by_category |-> EmptyDict],
                 self.medical_bills))

\* analyze_insurance_coverage, lines 366-373
pi_plaintiff_coverage(policy_info, coverages) ==
    [company |-> Get(policy_info, "insurance_company", ""),
     policy_number |-> Get(policy_info, "policy_number", ""),
     no_fault_pip |-> Get(Get(coverages, "personal_injury_protection_no_fault", EmptyDict),
                          "basic_pip", 0),
     obel |-> Get(Get(coverages, "personal_injury_protection_no_fault", EmptyDict),
                  "obel", 0),
     sum_per_person |-> Get(Get(coverages, "underinsured_motorist_sum", EmptyDict),
                            "per_person", 0),
     sum_per_accident |-> Get(Get(coverages, "underinsured_motorist_sum", EmptyDict),
                              "per_accident", 0)]

\* lines 376-381
pi_defendant_coverage(policy_info, coverages) ==
    [company |-> Get(policy_info, "insurance_company", ""),
     policy_number |-> Get(policy_info, "policy_number", ""),
     bi_per_person |-> Get(Get(coverages, "bodily_injury_liability", EmptyDict),
                           "per_person", 0),
     bi_per_accident |-> Get(Get(coverages, "bodily_injury_liability", EmptyDict),
                             "per_accident", 0)]

\* lines 359-381: one policy
pi_add_policy(coverage, policy) ==
    IF InStr("Personal", Get(Get(policy, "policy_info", EmptyDict), "policy_type", ""))
    THEN [coverage EXCEPT
             !.plaintiff_coverage = pi_plaintiff_coverage(policy.policy_info,
                                                          Get(policy, "coverages", EmptyDict))]
    ELSE IF InStr("Commercial", Get(Get(policy, "policy_info", EmptyDict), "policy_type", ""))
    THEN [coverage EXCEPT
             !.defendant_coverage = pi_defendant_coverage(policy.policy_info,
                                                          Get(policy, "coverages", EmptyDict))]
    ELSE coverage

\* lines 384-394, for the two limits read back from the coverage
pi_coverage_totals(coverage, def_bi, plt_sum) ==
    [coverage EXCEPT
        !.total_available_coverage = def_bi + plt_sum,
        !.coverage_analysis =
            IF def_bi >= plt_sum
            THEN "Defendant's BI limits ($" \o format_thousands(def_bi)
                     \o ") exceed plaintiff's SUM. No SUM claim available."
            ELSE "Potential SUM claim of $" \o format_thousands(plt_sum - def_bi)
                     \o " if defendant's policy is exhausted."]

pi_analyze_coverage(coverage) ==
    pi_coverage_totals(coverage,
                       Get(coverage.defendant_coverage, "bi_per_person", 0),
                       Get(coverage.plaintiff_coverage, "sum_per_person", 0))

pi_analyze_insurance_coverage(self) ==
    pi_analyze_coverage(
        FoldLeft(pi_add_policy,
                 [plaintiff_coverage |-> EmptyDict, defendant_coverage |-> EmptyDict,
                  total_available_coverage |-> 0, coverage_analysis |-> ""],
                 self.insurance_policies))

(***************************************************************************)
(* Regular expressions of the re module, as far as the patterns of         *)
(* aws_results_aggregator.py use them.  A pattern is a list of             *)
(* alternatives, an alternative a list of items; an item is a literal, a   *)
(* character class with a repetition (min, max, greedy or lazy) or a       *)
(* lookahead, and carries the number of the capturing group it lies in (0  *)
(* for none).                                                              *)
(* Matching follows the backtracking order of re: the leftmost start, the  *)
(* first alternative, and for each repetition the longest (greedy) or      *)
(* shortest (lazy) count for which the rest of the pattern matches.  A     *)
(* text is matched as the sequence of its characters.                      *)
\* analyze_ny_serious_injury, lines 453-466: the categories one record adds
\* to the set categories_found, in the order of the tests
PI_CATEGORIES ==
    <<<<"permanent_consequential_limitation", "Permanent Consequential Limitation">>,
      <<"significant_limitation_of_use", "Significant Limitation of Use">>,
      <<"permanent_loss_of_use", "Permanent Loss of Use">>,
      <<"fracture", "Fracture">>,
      <<"significant_disfigurement", "Significant Disfigurement">>,
      <<"ninety_one_eighty_disability", "90/180 Day Disability">>>>

pi_add_categories(found, record) ==
    found \o SelectSeq([i \in 1..Len(PI_CATEGORIES) |->
                            IF Get(Get(record, "ny_serious_injury_indicators", EmptyDict),
                                   PI_CATEGORIES[i][1], FALSE)
                            THEN PI_CATEGORIES[i][2] ELSE ""],
                        LAMBDA name : name # "")

\* lines 468-469
pi_add_language(evidence, record) ==
    evidence \o Get(Get(record, "ny_serious_injury_indicators", EmptyDict),
                    "supporting_language", <<>>)

pi_categories_found(self) == FoldLeft(pi_add_categories, <<>>, self.medical_records)

\* lines 476-485
pi_strength_assessment(found) ==
    IF InList("Permanent Consequential Limitation", found)
       \/ InList("Permanent Loss of Use", found)
    THEN "Strong - Permanent limitation documented"
    ELSE IF InList("Significant Limitation of Use", found)
    THEN "Moderate-Strong - Significant limitation with objective findings"
    ELSE IF InList("90/180 Day Disability", found)
    THEN "Moderate - Must document 90 days disability in first 180 days"
    ELSE "Weak - May not meet serious injury threshold"

\* lines 471-485, for the categories found and the evidence collected
pi_threshold_analysis(found, evidence, hash_order) ==
    [meets_threshold |-> Len(found) > 0,
     categories_met |-> list_set(found, hash_order.categories),
     supporting_evidence |-> evidence,
     strength_assessment |-> pi_strength_assessment(found),
     risk_factors |-> IF pi_strength_assessment(found)
                             = "Weak - May not meet serious injury threshold"
                      THEN <<"Limited objective findings documented">> ELSE <<>>]

pi_analyze_ny_serious_injury(self, hash_order) ==
    pi_threshold_analysis(pi_categories_found(self),
                          FoldLeft(pi_add_language, <<>>, self.medical_records), hash_order)

pi_hash_orders(self) == pi_orders_of(pi_collect_injuries(self), pi_categories_found(self))

\* s.startswith(prefix)
startswith(s, prefix) == Len(s) >= Len(prefix) /\ SubSeq(s, 1, Len(prefix)) = prefix

\* the characters of the strings compared, in the order of their code points
CODE_POINTS == " -/0123456789:ABCDEFGHIJKLMNOPQRSTUVWXYZabcdefghijklmnopqrstuvwxyz"

\* ord(c), up to the offset of the first character
ord(c) == CHOOSE i \in 1..Len(CODE_POINTS) : SubSeq(CODE_POINTS, i, i) = c

\* a < b for two str: the first character that differs decides, a proper
\* prefix is smaller
str_lt(a, b) ==
    \E k \in 1..(Len(b)) :
        /\ SubSeq(a, 1, Min(k - 1, Len(a))) = SubSeq(b, 1, k - 1)
        /\ (k > Len(a) \/ ord(SubSeq(a, k, k)) < ord(SubSeq(b, k, k)))

\* list.sort(key=...) on str keys: the entry goes behind the entries whose
\* key is not greater than its own (the sort is stable)
insert_by_date(sorted, entry) ==
    LET before == {i \in 1..Len(sorted) : ~str_lt(entry.date, sorted[i].date)}
    IN  SubSeq(sorted, 1, Cardinality(before)) \o <<entry>>
        \o SubSeq(sorted, Cardinality(before) + 1, Len(sorted))

\* build_treatment_timeline, lines 242-249: the entry of one record
pi_timeline_entry(record) ==
    [date |-> Get(Get(record, "document_info", EmptyDict), "date_of_service", ""),
     provider |-> Get(Get(record, "document_info", EmptyDict), "facility_name", ""),
     type |-> Get(Get(record, "document_info", EmptyDict), "record_type", ""),
     chief_complaint |-> Get(record, "chief_complaint", ""),
     treatments |-> [i \in 1..Len(Get(record, "treatment_provided", <<>>)) |->
                        Get(record.treatment_provided[i], "description", "")],
     referrals |-> [i \in 1..Len(Get(record, "referrals", <<>>)) |->
                       Get(record.referrals[i], "specialty", "")]]

\* PICaseAggregator.build_treatment_timeline (lines 236-255)
pi_build_treatment_timeline(self) ==
    FoldLeft(insert_by_date, <<>>,
             [i \in 1..Len(self.medical_records) |-> pi_timeline_entry(self.medical_records[i])])

\* the calendar of datetime: a date is [year, month, day]
IsLeap(year) == (year % 4 = 0 /\ year % 100 # 0) \/ year % 400 = 0

days_in_month(year, month) ==
    IF month = 2 THEN (IF IsLeap(year) THEN 29 ELSE 28)
    ELSE IF month \in {4, 6, 9, 11} THEN 30 ELSE 31

days_before_year(year) ==
    (year - 1) * 365 + (year - 1) \div 4 - (year - 1) \div 100 + (year - 1) \div 400

RECURSIVE days_before_month(_, _)
days_before_month(year, month) ==
    IF month = 1 THEN 0
    ELSE days_before_month(year, month - 1) + days_in_month(year, month - 1)

\* date.toordinal()
toordinal(date) ==
    days_before_year(date.year) + days_before_month(date.year, date.month) + date.day

\* the date n - days_before_year(year) days into the year
date_in_year(year, n) ==
    LET month == CHOOSE m \in 1..12 :
                     /\ days_before_month(year, m) < n
                     /\ n <= days_before_month(year, m) + days_in_month(year, m)
    IN  [year |-> year, month |-> month, day |-> n - days_before_month(year, month)]

\* date.fromordinal(n)
fromordinal(n) ==
    LET year == CHOOSE y \in (n \div 366)..(n \div 365 + 1) :
                    days_before_year(y) < n /\ n <= days_before_year(y + 1)
    IN  date_in_year(year, n - days_before_year(year))

\* the date of three fields of digits, ValueError for a date that is none
date_of_fields(month, day, year) ==
    IF /\ Len(month) \in 1..2 /\ Len(day) \in 1..2 /\ Len(year) = 4
       /\ \A c \in Range(month) \cup Range(day) \cup Range(year) : c \in DigitChars
       /\ int_digits(month) \in 1..12
       /\ int_digits(year) >= 1
       /\ int_digits(day) \in 1..days_in_month(int_digits(year), int_digits(month))
    THEN [year |-> int_digits(year), month |-> int_digits(month), day |-> int_digits(day)]
    ELSE Raise("ValueError")

\* the fields of chars at the two slashes
date_at_slashes(chars, first, second) ==
    date_of_fields(SubSeq(chars, 1, first - 1), SubSeq(chars, first + 1, second - 1),
                   SubSeq(chars, second + 1, Len(chars)))

\* datetime.strptime(s, "%m/%d/%Y")
strptime(s) ==
    IF Cardinality({i \in 1..Len(s) : SubSeq(s, i, i) = "/"}) # 2 THEN Raise("ValueError")
    ELSE date_at_slashes(Chars(s),
                         CHOOSE i \in 1..Len(s) :
                             SubSeq(s, i, i) = "/" /\ \E k \in (i + 1)..Len(s) : SubSeq(s, k, k) = "/",
                         CHOOSE k \in 1..Len(s) :
                             SubSeq(s, k, k) = "/" /\ \E i \in 1..(k - 1) : SubSeq(s, i, i) = "/")

\* f"{n:02d}"
two_digits(n) == IF n < 10 THEN "0" \o str(n) ELSE str(n)

\* date.strftime('%m/%d/%Y')
strftime(date) ==
    two_digits(date.month) \o "/" \o two_digits(date.day) \o "/" \o str(date.year)

\* (sol_date - now).days: sol_date is a midnight, now the reading of the
\* clock, a date and whether any time has passed since its midnight
days_until(sol_date, now) ==
    toordinal(sol_date) - toordinal(now.date) - (IF now.at_midnight THEN 0 ELSE 1)

\* f"{n}" for an int n
str_int(n) == IF n < 0 THEN "-" \o str(0 - n) ELSE str(n)

\* lines 565-568
pi_statute_action(sol_date, days_remaining) ==
    IF days_remaining < 180
    THEN <<"URGENT: Statute of limitations expires in " \o str_int(days_remaining)
               \o " days (" \o strftime(sol_date) \o ")">>
    ELSE IF days_remaining < 365
    THEN <<"NOTE: Statute of limitations expires in " \o str_int(days_remaining)
               \o " days (" \o strftime(sol_date) \o ")">>
    ELSE <<>>

\* lines 562-570, for the accident date parsed
pi_statute_of(accident_date, now) ==
    IF IsRaise(accident_date) THEN <<>>
    ELSE pi_statute_action(fromordinal(toordinal(accident_date) + 365 * 3),
                           days_until(fromordinal(toordinal(accident_date) + 365 * 3), now))

\* lines 558-570: the statute of limitations
pi_statute_of_limitations(self, now) ==
    IF Len(self.police_reports) = 0 THEN <<>>
    ELSE IF Get(Get(self.police_reports[1], "accident_details", EmptyDict), "date", "") = ""
    THEN <<>>
    ELSE pi_statute_of(strptime(self.police_reports[1].accident_details.date), now)

\* lines 573-580
pi_treatment_actions(serious_injury) ==
    (IF /\ InList("90/180 Day Disability", serious_injury.categories_met)
        /\ \A i \in 1..Len(serious_injury.categories_met) :
               ~InStr("Permanent", serious_injury.categories_met[i])
     THEN <<"Obtain narrative report documenting 90/180 day disability with specific activity limitations">>
     ELSE <<>>)
    \o (IF startswith(serious_injury.strength_assessment, "Moderate")
        THEN <<"Request updated narrative report with permanency opinion from treating physician">>
        ELSE <<>>)

\* lines 583-586
pi_insurance_actions(coverage) ==
    IF Get(coverage.defendant_coverage, "bi_per_person", 0) > 0
    THEN <<"Send policy limits demand to defendant's carrier ($"
               \o format_thousands(coverage.defendant_coverage.bi_per_person)
               \o " available)">>
    ELSE <<>>

\* lines 588-590: the actions of every case
PI_STANDARD_ACTIONS ==
    <<"Request updated records from all treating providers",
      "Obtain final bills with No-Fault payments and balances due">>

\* generate_recommended_actions (lines 548-595), for what its calls of
\* calculate_special_damages, analyze_ny_serious_injury and
\* analyze_insurance_coverage give and the statute action
pi_actions_of(specials, statute, serious_injury, coverage) ==
    IF IsRaise(specials) THEN specials
    ELSE PyList(
         (IF specials.no_fault_remaining < 10000
          THEN <<"URGENT: No-Fault benefits nearly exhausted. Consider filing NF-10 denial appeal or transition to health insurance.">>
          ELSE <<>>)
         \o statute
         \o pi_treatment_actions(serious_injury)
         \o pi_insurance_actions(coverage)
         \o PI_STANDARD_ACTIONS
         \o (IF specials.total_liens > 0
             THEN <<"Negotiate medical liens totaling $" \o format_money(specials.total_liens)>>
             ELSE <<>>))

\* PICaseAggregator.generate_recommended_actions (lines 548-595), the clock
\* reading now
pi_generate_recommended_actions(self, hash_order, now) ==
    pi_actions_of(pi_calculate_special_damages(self), pi_statute_of_limitations(self, now),
                  pi_analyze_ny_serious_injury(self, hash_order),
                  pi_analyze_insurance_coverage(self))


(***************************************************************************)
WHITESPACE == {" ", "\t", "\n", "\r", "\f"}
Letters == UpperLetters \cup {LowerOf[c] : c \in UpperLetters}

\* [chars]{min,max}; max = -1 stands for no limit
one_of(chars, min, max, group) ==
    [kind |-> "class", chars |-> chars, negated |-> FALSE, min |-> min, max |-> max,
     lazy |-> FALSE, group |-> group]

\* [^chars]{min,max}
none_of(chars, min, max, group) ==
    [kind |-> "class", chars |-> chars, negated |-> TRUE, min |-> min, max |-> max,
     lazy |-> FALSE, group |-> group]

\* .+? under re.DOTALL
lazy_any(group) ==
    [kind |-> "class", chars |-> {}, negated |-> TRUE, min |-> 1, max |-> -1,
     lazy |-> TRUE, group |-> group]

\* a literal text, as a list of one item
literal(s, group) == <<[kind |-> "literal", text |-> s, group |-> group]>>

\* (?=l1|l2|...) with the alternative $ when at_end
ahead(literals, at_end) ==
    [kind |-> "ahead", literals |-> literals, at_end |-> at_end, group |-> 0]

\* the character c belongs to the class of the item
in_class(item, c) == (c \in item.chars) # item.negated

\* how many characters from pos on the class of the item can take, from n up
RECURSIVE run_length(_, _, _, _)
run_length(text, item, pos, n) ==
    IF pos + n > Len(text) \/ n = item.max THEN n
    ELSE IF in_class(item, text[pos + n]) THEN run_length(text, item, pos, n + 1)
    ELSE n

\* the text has the literal l at pos
starts_with(text, pos, l) ==
    /\ pos + Len(l) - 1 <= Len(text)
    /\ \A j \in 1..Len(l) : text[pos + j - 1] = SubSeq(l, j, j)

\* $ matches at the end of the text and before a newline that ends it
at_end_of(text, pos) ==
    pos = Len(text) + 1 \/ (pos = Len(text) /\ text[pos] = "\n")

ahead_holds(text, item, pos) ==
    \/ item.at_end /\ at_end_of(text, pos)
    \/ \E l \in item.literals : starts_with(text, pos, l)

NoMatch == [ok |-> FALSE, ends |-> <<>>]

\* an item that ends before position end, followed by the rest
match_rest(end, rest) == [ok |-> rest.ok, ends |-> <<end>> \o rest.ends]

\* the j-th count re tries for a repetition that can take up to run
\* characters: the longest first when greedy, the shortest first when lazy
candidate(item, run, j) == IF item.lazy THEN item.min + j ELSE run - j

\* the items k.. of an alternative matched at pos: whether they match, and
\* the position after each of them
RECURSIVE match_items(_, _, _, _)
match_taking(text, items, k, end) == match_rest(end, match_items(text, items, k + 1, end))

\* the rest of the pattern matches after the j-th count tried
accepts(text, items, k, pos, run, j) ==
    match_items(text, items, k + 1, pos + candidate(items[k], run, j)).ok

\* the repetition settles on the j-th count tried, or fails when all did
match_choice(text, items, k, pos, run, j) ==
    IF j > run - items[k].min THEN NoMatch
    ELSE match_taking(text, items, k, pos + candidate(items[k], run, j))

\* the first count tried that the rest of the pattern accepts
match_counts(text, items, k, pos, run) ==
    IF run < items[k].min THEN NoMatch
    ELSE match_choice(text, items, k, pos, run,
                      CHOOSE j \in 0..(run - items[k].min + 1) :
                          /\ j > run - items[k].min \/ accepts(text, items, k, pos, run, j)
                          /\ \A i \in 0..(j - 1) : ~accepts(text, items, k, pos, run, i))

match_items(text, items, k, pos) ==
    IF k > Len(items) THEN [ok |-> TRUE, ends |-> <<>>]
    ELSE IF items[k].kind = "ahead"
    THEN IF ahead_holds(text, items[k], pos) THEN match_taking(text, items, k, pos)
         ELSE NoMatch
    ELSE IF items[k].kind = "literal"
    THEN IF starts_with(text, pos, items[k].text)
         THEN match_taking(text, items, k, pos + Len(items[k].text))
         ELSE NoMatch
    ELSE IF items[k].min = items[k].max
    THEN IF run_length(text, items[k], pos, 0) = items[k].max
         THEN match_taking(text, items, k, pos + items[k].max)
         ELSE NoMatch
    ELSE match_counts(text, items, k, pos, run_length(text, items[k], pos, 0))

\* the pattern matched at pos: the first alternative that matches
match_alternative(text, items, pos, found) ==
    [ok |-> TRUE, start |-> pos, items |-> items, ends |-> found.ends,
     end |-> IF Len(found.ends) = 0 THEN pos ELSE found.ends[Len(found.ends)]]

match_first(text, pattern, pos, alternatives) ==
    match_alternative(text, pattern[CHOOSE a \in alternatives : \A b \in alternatives : a <= b],
                      pos,
                      match_items(text,
                                  pattern[CHOOSE a \in alternatives :
                                              \A b \in alternatives : a <= b],
                                  1, pos))

match_at(text, pattern, pos) ==
    match_first(text, pattern, pos,
                {a \in 1..Len(pattern) : match_items(text, pattern[a], 1, pos).ok})

\* some alternative of the pattern matches at pos
matches_at(text, pattern, pos) ==
    \E a \in 1..Len(pattern) : match_items(text, pattern[a], 1, pos).ok

\* re.search(pattern, text) from position from on: the leftmost match
search_from(text, pattern, from) ==
    IF \E p \in from..(Len(text) + 1) : matches_at(text, pattern, p)
    THEN match_at(text, pattern,
                  CHOOSE p \in from..(Len(text) + 1) :
                      /\ matches_at(text, pattern, p)
                      /\ \A q \in from..(p - 1) : ~matches_at(text, pattern, q))
    ELSE [ok |-> FALSE]

search(text, pattern) == search_from(text, pattern, 1)

\* the characters of text between two positions, as a str
text_between(text, start, end) == join("", SubSeq(text, start, end - 1))

\* match.group(g), read from text (the text searched, or the original of a
\* text searched in lower case)
group_between(text, found, first, last) ==
    text_between(text, IF first = 1 THEN found.start ELSE found.ends[first - 1],
                 found.ends[last])

group(text, found, g) ==
    group_between(text, found,
                  CHOOSE k \in 1..Len(found.items) :
                      /\ found.items[k].group = g
                      /\ \A j \in 1..(k - 1) : found.items[j].group # g,
                  CHOOSE k \in 1..Len(found.items) :
                      /\ found.items[k].group = g
                      /\ \A j \in (k + 1)..Len(found.items) : found.items[j].group # g)

\* re.findall(pattern, text) for a pattern with one group; a match of these
\* patterns is never empty
RECURSIVE findall_from(_, _, _)
findall_next(text, pattern, found) ==
    IF found.ok
    THEN <<group(text, found, 1)>> \o findall_from(text, pattern, found.end)
    ELSE <<>>

findall_from(text, pattern, from) == findall_next(text, pattern, search_from(text, pattern, from))

findall(text, pattern) == findall_from(text, pattern, 1)

\* len(re.findall(pattern, text)): the number of matches found one after
\* the other
RECURSIVE count_from(_, _, _)
count_next(text, pattern, found) ==
    IF found.ok THEN 1 + count_from(text, pattern, found.end) ELSE 0

count_from(text, pattern, from) == count_next(text, pattern, search_from(text, pattern, from))

count_matches(text, pattern) == count_from(text, pattern, 1)

(***************************************************************************)
(* AWSResultsAggregator: a document is the text of a *.txt file, and the   *)
(* content of its file is Text(s).  Amounts in the texts explored are      *)
(* whole dollars, written with or without the fraction ".00".              *)
(***************************************************************************)
Text(s) == [type |-> "text", value |-> s]

\* the attribute of the aggregator that holds the texts of a doc_type
TextListOf ==
    [t \in Range(DOC_TYPES) |->
        CASE t = "MEDICAL_RECORDS" -> "medical_records_text"
          [] t = "POLICE_REPORT" -> "police_reports_text"
          [] t = "INSURANCE_POLICY" -> "insurance_policies_text"
          [] t = "MEDICAL_BILLS" -> "medical_bills_text"]

\* load_documents, lines 37-47: one *.txt file
aws_load_file(run, file) ==
    IF file.doc_type \in Range(DOC_TYPES)
    THEN [run EXCEPT !.self[TextListOf[file.doc_type]] = Append(@, file.content.value)]
    ELSE run

aws_load_documents(self, folder) == FoldLeft(aws_load_file, Running(self), folder)

\* r'ICD-10[:\s]+([A-Z]\d+\.\d+[A-Z]*)'
ICD_PATTERN ==
    <<literal("ICD-10", 0)
      \o <<one_of({":"} \cup WHITESPACE, 1, -1, 0),
           one_of(UpperLetters, 1, 1, 1), one_of(DigitChars, 1, -1, 1),
           one_of({"."}, 1, 1, 1), one_of(DigitChars, 1, -1, 1),
           one_of(UpperLetters, 0, -1, 1)>>>>

\* r'\d+\.\s+([A-Za-z\s,/]+)(?:\s+ICD)'
DIAGNOSIS_PATTERN ==
    <<<<one_of(DigitChars, 1, -1, 0), one_of({"."}, 1, 1, 0), one_of(WHITESPACE, 1, -1, 0),
        one_of(Letters \cup WHITESPACE \cup {",", "/"}, 1, -1, 1),
        one_of(WHITESPACE, 1, -1, 0)>>
      \o literal("ICD", 0)>>

\* r'(?:no work|off work|work restriction)[^\n]*(\d+\s+weeks?)' under
\* re.IGNORECASE: matched against the text in lower case
work_pattern_after(start) ==
    literal(start, 0)
    \o <<none_of({"\n"}, 0, -1, 0), one_of(DigitChars, 1, -1, 1),
         one_of(WHITESPACE, 1, -1, 1)>>
    \o literal("week", 1) \o <<one_of({"s"}, 0, 1, 1)>>

WORK_PATTERN ==
    <<work_pattern_after("no work"), work_pattern_after("off work"),
      work_pattern_after("work restriction")>>

\* r'PLAN[:\s]*\n(.+?)(?=Patient is|Attending|$)' under re.DOTALL
PLAN_PATTERN ==
    <<literal("PLAN", 0)
      \o <<one_of({":"} \cup WHITESPACE, 0, -1, 0), one_of({"\n"}, 1, 1, 0), lazy_any(1),
           ahead({"Patient is", "Attending"}, TRUE)>>>>

\* r'\d+\.\s+([^\n]+)'
PLAN_ITEM_PATTERN ==
    <<<<one_of(DigitChars, 1, -1, 0), one_of({"."}, 1, 1, 0), one_of(WHITESPACE, 1, -1, 0),
        none_of({"\n"}, 1, -1, 1)>>>>

\* lines 159-164: the body parts a text names
aws_body_parts_of(text) ==
    (IF InStr("Cervical", text) \/ InStr("cervical", text)
     THEN <<"Cervical Spine (Neck)">> ELSE <<>>)
    \o (IF InStr("Lumbar", text) \/ InStr("lumbar", text)
        THEN <<"Lumbar Spine (Lower Back)">> ELSE <<>>)
    \o (IF InStr("Shoulder", text) \/ InStr("shoulder", text)
        THEN <<"Shoulder">> ELSE <<>>)

\* d.strip() for each diagnosis matched
aws_stripped(matches) == [i \in 1..Len(matches) |-> strip(matches[i], WHITESPACE)]

\* lines 167-169, for the match of the work pattern in the lower-case text
aws_work_restrictions(work_restrictions, text, work_match) ==
    IF work_match.ok THEN "No work x " \o group(Chars(text), work_match, 1)
    ELSE work_restrictions

\* lines 172-175, for the match of the plan pattern
aws_plan_items(text, plan_match) ==
    IF plan_match.ok
    THEN findall(Chars(group(Chars(text), plan_match, 1)), PLAN_ITEM_PATTERN)
    ELSE <<>>

\* extract_injuries, lines 149-175: one text
aws_injuries_of_text(injuries, text) ==
    [injuries EXCEPT
        !.icd_codes = @ \o findall(Chars(text), ICD_PATTERN),
        !.diagnoses = @ \o aws_stripped(findall(Chars(text), DIAGNOSIS_PATTERN)),
        !.body_parts = @ \o aws_body_parts_of(text),
        !.work_restrictions = aws_work_restrictions(@, text, search(lower(text), WORK_PATTERN)),
        !.treatment_plan = @ \o aws_plan_items(text, search(Chars(text), PLAN_PATTERN))]

\* extract_injuries before its deduplication
aws_collect_injuries(self) ==
    FoldLeft(aws_injuries_of_text,
             [diagnoses |-> <<>>, icd_codes |-> <<>>, body_parts |-> <<>>,
              treatment_plan |-> <<>>, work_restrictions |-> ""],
             self.medical_records_text)

\* lines 178-179
aws_deduplicate(injuries, hash_order) ==
    [injuries EXCEPT !.icd_codes = list_set(@, hash_order.icd_codes),
                     !.body_parts = list_set(@, hash_order.body_parts)]

aws_extract_injuries(self, hash_order) ==
    aws_deduplicate(aws_collect_injuries(self), hash_order)

\* r'<label>[:\s]+\$?([\d,]+\.?\d*)'
amount_pattern(label) ==
    <<literal(label, 0)
      \o <<one_of({":"} \cup WHITESPACE, 1, -1, 0), one_of({"$"}, 0, 1, 0),
           one_of(DigitChars \cup {","}, 1, -1, 1), one_of({"."}, 0, 1, 1),
           one_of(DigitChars, 0, -1, 1)>>>>

\* r'<label>[^\$]*\$?([\d,]+\.?\d*)'
amount_after_pattern(label) ==
    <<literal(label, 0)
      \o <<none_of({"$"}, 0, -1, 0), one_of({"$"}, 0, 1, 0),
           one_of(DigitChars \cup {","}, 1, -1, 1), one_of({"."}, 0, 1, 1),
           one_of(DigitChars, 0, -1, 1)>>>>

\* r'(\d{5})\s+[A-Z]'
CPT_PATTERN ==
    <<<<one_of(DigitChars, 5, 5, 1), one_of(WHITESPACE, 1, -1, 0),
        one_of(UpperLetters, 1, 1, 0)>>>>

\* the digits of s before its decimal point
whole_part(s) ==
    LET chars == Chars(s)
        Digit(c) == c \in DigitChars
        points == {i \in 1..Len(s) : chars[i] = "."}
    IN  SelectSeq(SubSeq(chars, 1, IF points = {} THEN Len(s)
                                   ELSE (CHOOSE i \in points : TRUE) - 1),
                  Digit)

\* float(s.replace(',', '')) for a group of digits and commas with at most
\* one point: the number of whole dollars, ValueError when no digit is left
float(s) ==
    IF \E i \in 1..Len(s) : SubSeq(s, i, i) \in DigitChars
    THEN PyInt(int_digits(whole_part(s)))
    ELSE Raise("ValueError")

\* match.group(1) turned into a float, for a match found
aws_amount(text, found) == float(group(Chars(text), found, 1))

\* total += float(...) if the pattern matched
aws_add_amount(total, text, found) ==
    IF found.ok THEN total + aws_amount(text, found).value ELSE total

\* lines 215-220
aws_lien_entries(text, found) ==
    IF found.ok
    THEN <<[provider |-> "Bellevue Hospital Center",
            amount |-> aws_amount(text, found).value]>>
    ELSE <<>>

\* a float() of lines 202-219 raises ValueError for the text
aws_raises_value_error(text, matches) ==
    \E i \in 1..Len(matches) : matches[i].ok /\ IsRaise(aws_amount(text, matches[i]))

\* lines 196-224, for the matches of the four amount patterns
aws_add_bill_of(bills, text, matches) ==
    [bills EXCEPT
        !.providers = IF InStr("BELLEVUE", text)
                      THEN Append(@, "Bellevue Hospital Center") ELSE @,
        !.total_charges = aws_add_amount(@, text, matches[1]),
        !.total_paid = aws_add_amount(@, text, matches[2]),
        !.total_owed = aws_add_amount(@, text, matches[3]),
        !.liens = @ \o aws_lien_entries(text, matches[4]),
        !.cpt_codes = @ \o findall(Chars(text), CPT_PATTERN)]

aws_add_bill_matched(bills, text, matches) ==
    IF aws_raises_value_error(text, matches) THEN Raise("ValueError")
    ELSE aws_add_bill_of(bills, text, matches)

\* extract_medical_bills, lines 194-224: one text; an exception ends the loop
aws_add_bill(bills, text) ==
    IF IsRaise(bills) THEN bills
    ELSE aws_add_bill_matched(
             bills, text,
             <<search(Chars(text), amount_pattern("Total Charges")),
               search(Chars(text), amount_after_pattern("Insurance Payment")),
               search(Chars(text), amount_pattern("Amount Due")),
               search(lower(text), amount_after_pattern("lien"))>>)

\* extract_medical_bills before line 226
aws_collect_bills(self) ==
    FoldLeft(aws_add_bill,
             [providers |-> <<>>, total_charges |-> 0, total_paid |-> 0, total_owed |-> 0,
              liens |-> <<>>, cpt_codes |-> <<>>],
             self.medical_bills_text)

\* line 226
aws_deduplicate_cpt(bills, hash_order) ==
    IF IsRaise(bills) THEN bills
    ELSE [bills EXCEPT !.cpt_codes = list_set(@, hash_order.cpt_codes)]

aws_extract_medical_bills(self, hash_order) ==
    aws_deduplicate_cpt(aws_collect_bills(self), hash_order)

\* the orders in which the sets of a process may iterate
aws_orders_of(injuries, bills) ==
    {[icd_codes |-> i, body_parts |-> b, cpt_codes |-> c] :
        i \in orders(injuries.icd_codes),
        b \in orders(injuries.body_parts),
        c \in orders(IF IsRaise(bills) THEN <<>> ELSE bills.cpt_codes)}

aws_hash_orders(self) == aws_orders_of(aws_collect_injuries(self), aws_collect_bills(self))

\* r'Policy Number[:\s]+([^\s]+)'
POLICY_NUMBER_PATTERN ==
    <<literal("Policy Number", 0)
      \o <<one_of({":"} \cup WHITESPACE, 1, -1, 0), none_of(WHITESPACE, 1, -1, 1)>>>>

\* r'Bodily Injury Liability\s+\$?([\d,]+)[^\$]*\$?([\d,]+)'
BI_PATTERN ==
    <<literal("Bodily Injury Liability", 0)
      \o <<one_of(WHITESPACE, 1, -1, 0), one_of({"$"}, 0, 1, 0),
           one_of(DigitChars \cup {","}, 1, -1, 1), none_of({"$"}, 0, -1, 0),
           one_of({"$"}, 0, 1, 0), one_of(DigitChars \cup {","}, 1, -1, 2)>>>>

\* r'<label>[^\$]*\$?([\d,]+)'
limit_pattern(label) ==
    <<literal(label, 0)
      \o <<none_of({"$"}, 0, -1, 0), one_of({"$"}, 0, 1, 0),
           one_of(DigitChars \cup {","}, 1, -1, 1)>>>>

\* r'Underinsured Motorist[^\$]*\$?([\d,]+)[^\$]*\$?([\d,]+)'
SUM_PATTERN ==
    <<literal("Underinsured Motorist", 0)
      \o <<none_of({"$"}, 0, -1, 0), one_of({"$"}, 0, 1, 0),
           one_of(DigitChars \cup {","}, 1, -1, 1), none_of({"$"}, 0, -1, 0),
           one_of({"$"}, 0, 1, 0), one_of(DigitChars \cup {","}, 1, -1, 2)>>>>

\* f"${group(1)}/{group(2)}" if the pattern matched
aws_limits(text, found) ==
    IF found.ok
    THEN "$" \o group(Chars(text), found, 1) \o "/" \o group(Chars(text), found, 2)
    ELSE ""

\* lines 240-274: policy_info of one text
aws_policy_info(text, policy_match, bi_match, pip_match, sum_match) ==
    [carrier |-> IF InStr("STATE FARM", text) THEN "State Farm"
                 ELSE IF InStr("Progressive", text) THEN "Progressive" ELSE "",
     policy_number |-> IF policy_match.ok THEN group(Chars(text), policy_match, 1) ELSE "",
     bi_limits |-> aws_limits(text, bi_match),
     pip_limits |-> IF pip_match.ok THEN "$" \o group(Chars(text), pip_match, 1) ELSE "",
     sum_limits |-> aws_limits(text, sum_match)]

\* lines 277-281
aws_assign_policy(coverage, text, policy_info) ==
    IF InStr("State Farm", text) /\ InStr("Maria", text)
    THEN [coverage EXCEPT !.plaintiff_policy = policy_info]
    ELSE IF InStr("Progressive", text)
    THEN [coverage EXCEPT !.defendant_policy = policy_info]
    ELSE coverage

\* lines 265-275: the amounts available
aws_available(coverage, text, pip_match, sum_match) ==
    [coverage EXCEPT
        !.pip_available = IF pip_match.ok /\ InStr("State Farm", text)
                          THEN aws_amount(text, pip_match).value ELSE @,
        !.sum_available = IF sum_match.ok THEN aws_amount(text, sum_match).value ELSE @]

\* lines 239-281, for the matches of the four patterns
aws_add_policy_matched(coverage, text, policy_match, bi_match, pip_match, sum_match) ==
    IF aws_raises_value_error(text, IF InStr("State Farm", text)
                                    THEN <<pip_match, sum_match>> ELSE <<sum_match>>)
    THEN Raise("ValueError")
    ELSE aws_assign_policy(aws_available(coverage, text, pip_match, sum_match), text,
                           aws_policy_info(text, policy_match, bi_match, pip_match,
                                           sum_match))

\* extract_insurance_coverage, lines 239-281: one text
aws_add_policy(coverage, text) ==
    IF IsRaise(coverage) THEN coverage
    ELSE aws_add_policy_matched(
             coverage, text,
             search(Chars(text), POLICY_NUMBER_PATTERN),
             search(Chars(text), BI_PATTERN),
             search(Chars(text), limit_pattern("Personal Injury Protection")),
             search(Chars(text), SUM_PATTERN))

\* line 284
aws_total_coverage(coverage) ==
    IF IsRaise(coverage) THEN coverage
    ELSE [coverage EXCEPT
             !.total_available_coverage = coverage.pip_available + coverage.sum_available]

aws_extract_insurance_coverage(self) ==
    aws_total_coverage(
        FoldLeft(aws_add_policy,
                 [plaintiff_policy |-> EmptyDict, defendant_policy |-> EmptyDict,
                  pip_available |-> 0, sum_available |-> 0, total_available_coverage |-> 0],
                 self.insurance_policies_text))

\* r'(?:flexion|extension)\s+limited\s+to\s+(\d+)\s+degrees'
rom_pattern_after(start) ==
    literal(start, 0) \o <<one_of(WHITESPACE, 1, -1, 0)>> \o literal("limited", 0)
    \o <<one_of(WHITESPACE, 1, -1, 0)>> \o literal("to", 0)
    \o <<one_of(WHITESPACE, 1, -1, 0), one_of(DigitChars, 1, -1, 1),
         one_of(WHITESPACE, 1, -1, 0)>> \o literal("degrees", 0)

ROM_PATTERN == <<rom_pattern_after("flexion"), rom_pattern_after("extension")>>

\* analyze_ny_serious_injury, lines 333-335
aws_work_threshold(analysis, all_text) ==
    IF InLower("no work", all_text) \/ InLower("unable to perform", all_text)
    THEN [analysis EXCEPT
             !.threshold_categories =
                 Append(@, "90/180 Day Rule - Substantial limitation of daily activities"),
             !.supporting_evidence = Append(@, "Work restriction documented")]
    ELSE analysis

\* lines 338-342, for the match of the pattern in the lower-case text
aws_rom_threshold(analysis, all_text, rom_match) ==
    IF InLower("limited", all_text)
       /\ (InStr("ROM", all_text) \/ InLower("range of motion", all_text))
    THEN [analysis EXCEPT
             !.threshold_categories =
                 Append(@, "Significant limitation of use of body function/system"),
             !.supporting_evidence =
                 IF rom_match.ok
                 THEN Append(@, "Range of motion limited to "
                                    \o group(Chars(all_text), rom_match, 1) \o " degrees")
                 ELSE @]
    ELSE analysis

\* lines 345-350
aws_pathology_threshold(analysis, all_text) ==
    [analysis EXCEPT
        !.threshold_categories =
            IF InLower("disc bulging", all_text) \/ InLower("herniation", all_text)
            THEN Append(@, "Permanent consequential limitation") ELSE @,
        !.supporting_evidence =
            (IF InLower("disc bulging", all_text) \/ InLower("herniation", all_text)
             THEN Append(@, "Disc pathology documented on imaging") ELSE @)
            \o (IF InLower("radiculopathy", all_text)
                THEN <<"Radiculopathy diagnosis">> ELSE <<>>)]

\* mutant: the threshold is met whatever the categories are
aws_conclude_always_meets(analysis) ==
    [analysis EXCEPT !.meets_threshold = TRUE, !.notes = LIKELY_MEETS]

\* lines 352-357
aws_conclude(analysis) ==
    [analysis EXCEPT
        !.meets_threshold = Len(analysis.threshold_categories) > 0,
        !.notes = IF Len(analysis.threshold_categories) > 0
                  THEN LIKELY_MEETS ELSE ADDITIONAL_DOCUMENTATION]

\* lines 322-357, for all_text = " ".join(self.medical_records_text)
aws_threshold_of_text(all_text) ==
    aws_conclude(
        aws_pathology_threshold(
            aws_rom_threshold(
                aws_work_threshold([threshold_categories |-> <<>>, supporting_evidence |-> <<>>,
                                    meets_threshold |-> FALSE, notes |-> ""],
                                   all_text),
                all_text, search(lower(all_text), ROM_PATTERN)),
            all_text))

aws_analyze_ny_serious_injury(self) ==
    aws_threshold_of_text(join(" ", self.medical_records_text))

\* r'\d+\.\s+[A-Z][a-z]+\s+[A-Z][a-z]+,\s+(?:pedestrian|driver)'
witness_pattern_of(role) ==
    <<one_of(DigitChars, 1, -1, 0), one_of({"."}, 1, 1, 0), one_of(WHITESPACE, 1, -1, 0),
      one_of(UpperLetters, 1, 1, 0), one_of(Letters \ UpperLetters, 1, -1, 0),
      one_of(WHITESPACE, 1, -1, 0),
      one_of(UpperLetters, 1, 1, 0), one_of(Letters \ UpperLetters, 1, -1, 0),
      one_of({","}, 1, 1, 0), one_of(WHITESPACE, 1, -1, 0)>> \o literal(role, 0)

WITNESS_PATTERN == <<witness_pattern_of("pedestrian"), witness_pattern_of("driver")>>

\* analyze_liability, lines 310-316: the evidence of one report, for the
\* number of witnesses its text names
aws_evidence_with(evidence, text, witness_count) ==
    evidence
    \o (IF InLower("traffic camera", text) THEN <<"Traffic camera footage">> ELSE <<>>)
    \o (IF witness_count > 0 THEN <<str(witness_count) \o " witness statements">> ELSE <<>>)

aws_evidence_of_text(evidence, text) ==
    aws_evidence_with(evidence, text,
                      IF InLower("witness", text)
                      THEN count_matches(Chars(text), WITNESS_PATTERN) ELSE 0)

\* liability["evidence"] of analyze_liability (lines 288-318)
aws_liability_evidence(self) == FoldLeft(aws_evidence_of_text, <<>>, self.police_reports_text)

\* lines 396-402: the actions of every case
AWS_STANDARD_ACTIONS ==
    <<"Send preservation letter to defendant's insurance carrier",
      "Request certified copy of police report",
      "Schedule IME if required by insurance carrier",
      "Consider demand letter after maximum medical improvement">>

\* generate_recommended_actions (lines 380-405), for the injuries and the
\* evidence its calls of extract_injuries and analyze_liability give
aws_actions_of(injuries, evidence) ==
    (IF InStr("MRI", join(" ", injuries.treatment_plan))
     THEN <<"Schedule MRI of cervical and lumbar spine as recommended">> ELSE <<>>)
    \o (IF injuries.work_restrictions # ""
        THEN <<"Obtain employment records for lost wage calculation">> ELSE <<>>)
    \o (IF InList("Traffic camera footage", evidence)
        THEN <<"Request traffic camera footage via FOIL request">> ELSE <<>>)
    \o AWS_STANDARD_ACTIONS

\* AWSResultsAggregator.generate_recommended_actions (lines 380-405)
aws_generate_recommended_actions(self, hash_order) ==
    PyList(aws_actions_of(aws_extract_injuries(self, hash_order),
                          aws_liability_evidence(self)))

(***************************************************************************)
(* Case summaries explored.  A summary is the dict load_case_summary reads  *)
(* from case_summary.json; a section that is left out is a missing key.     *)
(***************************************************************************)
ImagingItems ==
    {"MRI: L4-L5 disc bulging", "MRI: C5-C6 Disc Herniation", "herniated disc",
     "annular bulge", "disc protrusion", "outcome uncertain"}

DiagnosisItems ==
    {"Lumbar radiculopathy", "Chronic pain", "disc herniation", "Bulging disc",
     "recovery expected"}

Prognoses ==
    {"", "Uncertain recovery", "Permanent impairment likely", "Radiculopathy may persist"}

ThresholdLists ==
    {<<>>,
     <<"Fracture", "Permanent consequential limitation">>,
     <<"Significant limitation of use of body function/system">>}

SeverityCases ==
    {[injuries |-> [imaging_findings |-> im, diagnoses |-> dg, prognosis |-> pr],
      ny_serious_injury_analysis |-> [threshold_categories |-> th]] :
        im \in ListsUpTo(ImagingItems, MaxImaging),
        dg \in ListsUpTo(DiagnosisItems, MaxDiagnoses),
        pr \in Prognoses,
        th \in ThresholdLists}

FaultTexts ==
    {"", "Driver 2 at fault", "Defendant 100% liable", "Driver 1 at fault",
     "Defendant not at fault", "Undetermined"}

EvidenceItems == {"Traffic camera footage", "Witness statement", "Dashcam Video"}

\* a list of n entries whose text does not matter (only its length is read)
Entries(text, n) == [i \in 1..n |-> text]

LiabilityCases ==
    {[liability_analysis |->
          [fault_determination |-> f,
           violations |-> Entries("VTL 1111(d)(1)", v),
           evidence |-> ev,
           contributing_factors |-> Entries("Failed to yield", c)],
      defendant |-> [violations |-> Entries("VTL 1180(a)", dv)]] :
        f \in FaultTexts,
        v \in 0..MaxViolations,
        dv \in 0..MaxViolations,
        ev \in ListsUpTo(EvidenceItems, MaxEvidence),
        c \in 0..MaxFactors}

\* one injuries section per severity tier
TierInjuries ==
    {[imaging_findings |-> <<"MRI: C5-C6 Disc Herniation">>,
      diagnoses |-> <<"Chronic pain">>, prognosis |-> "",
      cats |-> <<"Permanent consequential limitation">>],
     [imaging_findings |-> <<"MRI: C5-C6 Disc Herniation">>,
      diagnoses |-> <<>>, prognosis |-> "", cats |-> <<>>],
     [imaging_findings |-> <<"MRI: L4-L5 disc bulging">>,
      diagnoses |-> <<"Lumbar radiculopathy">>, prognosis |-> "", cats |-> <<>>],
     [imaging_findings |-> <<"MRI: L4-L5 disc bulging">>,
      diagnoses |-> <<>>, prognosis |-> "", cats |-> <<>>],
     [imaging_findings |-> <<>>,
      diagnoses |-> <<"Cervical strain">>, prognosis |-> "", cats |-> <<>>]}

\* medical_bills / special_damages sections: total charges in whole dollars
BillSections ==
    {EmptyDict} \cup
    {[medical_bills |-> [total_charges |-> n]] : n \in {0, 50, 250, 1000, 6290, 70000}} \cup
    {[special_damages |-> [medical_expenses |-> [total_billed |-> 1000]]],
     [medical_bills |-> [total_charges |-> 0],
      special_damages |-> [medical_expenses |-> [total_billed |-> 6290]]],
     [medical_bills |-> [total_charges |-> 250],
      special_damages |-> [medical_expenses |-> [total_billed |-> 1000]]]}

\* insurance_coverage sections
CoverageSections ==
    {EmptyDict,
     [insurance_coverage |-> [defendant_policy |-> EmptyDict]],
     [insurance_coverage |-> [defendant_policy |->
         [bi_limits |-> "$100,000/300,000"]]],
     [insurance_coverage |-> [defendant_policy |->
         [bi_limits |-> "", bi_per_person |-> 25000]]],
     [insurance_coverage |-> [defendant_policy |->
         [bi_limits |-> "Limits: $1,000 per person", bi_per_person |-> 50000]]],
     [insurance_coverage |-> [defendant_policy |->
         [bi_limits |-> "N/A", bi_per_person |-> 0]]],
     [insurance_coverage |-> [defendant_policy |->
         [bi_limits |-> "$0/0"]]],
     [insurance_coverage |-> [defendant_policy |->
         [bi_limits |-> ", see declarations"]]]}

DemandLiability ==
    {[fault_determination |-> f, violations |-> Entries("VTL 1111(d)(1)", v),
      evidence |-> ev, contributing_factors |-> <<>>] :
        f \in {"", "Driver 2 at fault"},
        v \in 0..2,
        ev \in {<<>>, <<"Traffic camera footage", "Witness statement">>}}

DemandCases ==
    {[injuries |-> [imaging_findings |-> inj.imaging_findings,
                    diagnoses |-> inj.diagnoses, prognosis |-> inj.prognosis],
      ny_serious_injury_analysis |-> [threshold_categories |-> inj.cats],
      liability_analysis |-> la] @@ bills @@ cov :
        inj \in TierInjuries, la \in DemandLiability,
        bills \in BillSections, cov \in CoverageSections}

(***************************************************************************)
(* Results folders explored.                                               *)
(***************************************************************************)
\* medical records: the structured format, twice, and the format with
\* patient_info and diagnoses
MedicalRecordDocs ==
    {Json([patientName |-> "Maria Rodriguez", dateOfBirth |-> "03/15/1985",
           assessment |-> <<[diagnosis |-> "Cervical strain", icd10Code |-> "S13.4XXA"],
                            [diagnosis |-> "Cervical radiculopathy", icd10Code |-> "M54.12"],
                            [diagnosis |-> "Cervical strain", icd10Code |-> "S13.4XXA"]>>,
           plan |-> <<"MRI of cervical spine">>,
           prognosis |-> "Guarded",
           diagnosticImaging |-> <<<<"MRI", "C5-C6 disc bulging">>, <<"X-ray", "">>>>]),
     Json([patientName |-> "John Smith", dateOfBirth |-> "07/04/1970",
           assessment |-> <<[diagnosis |-> "Cervical strain", icd10Code |-> "S13.4XXA"],
                            [diagnosis |-> "Neck pain, cervical", icd10Code |-> "S13.4XXA"]>>,
           prognosis |-> "Permanent impairment likely",
           diagnosticImaging |-> <<<<"X-ray", "No acute finding">>>>]),
     Json([patient_info |-> [name |-> "Maria Rodriguez", date_of_birth |-> "03/15/1985",
                             age_at_visit |-> 38],
           diagnoses |-> <<[description |-> "Cervical radiculopathy", icd_code |-> "M54.12",
                            body_part |-> "Neck", is_primary |-> TRUE],
                           [description |-> "Cervical radiculopathy", icd_code |-> "M54.12",
                            body_part |-> "Neck"]>>,
           ny_serious_injury_indicators |->
               [significant_limitation_of_use |-> TRUE,
                supporting_language |-> <<"Range of motion limited">>]]),
     Malformed}

\* police reports: scenario A (two violations, camera, witness, defendant
\* fully at fault) and a report that disagrees with it on every scalar
PoliceReportDocs ==
    {Json([report_info |-> [report_number |-> "MV-2024-001", date_prepared |-> "01/16/2024"],
           accident_details |->
               [date |-> "01/15/2024", time |-> "14:30",
                location |-> [street_address |-> "100 5th Ave", cross_street |-> "E 14th St",
                              borough |-> "Manhattan", county |-> "New York"]],
           drivers |-> <<[vehicle_number |-> 1, name |-> "Maria Rodriguez",
                          address |-> "456 East 10th St"],
                         [vehicle_number |-> 2, name |-> "James Wilson"]>>,
           vehicles |-> <<[vehicle_number |-> 2, year |-> "2019", make |-> "Ford",
                           model |-> "Transit",
                           insurance |-> [company |-> "Progressive",
                                          policy_number |-> "PG-2"]]>>,
           fault_indicators |->
               [fault_determination |-> "Driver 2 100% at fault",
                apparent_fault |-> "Driver 2",
                violations_cited |-> <<[vtl_section |-> "1111(d)(1)",
                                        description |-> "Red light"],
                                       [vtl_section |-> "1225-c", description |-> ""]>>,
                contributing_factors |-> <<"Driver inattention">>],
           witnesses |-> <<[name |-> "Ann Lee", statement_summary |-> "Saw V2 run the light"]>>,
           narrative |-> "Traffic camera footage shows V2 entering on red.",
           diagram_present |-> TRUE]),
     Json([report_info |-> [report_number |-> "MV-2024-777"],
           accident_details |->
               [date |-> "02/01/2024", time |-> "09:00",
                location |-> [cross_street |-> "Main St", borough |-> "Queens"]],
           drivers |-> <<[vehicle_number |-> 2, name |-> "Pat Doe"]>>,
           fault_indicators |->
               [fault_determination |-> "Undetermined",
                violations_cited |-> <<[vtl_section |-> "1180(a)",
                                        description |-> "Speeding"]>>],
           narrative |-> "Vehicles collided in the intersection."]),
     Malformed}

\* policies: the plaintiff's of the sample case, a commercial one, one whose
\* named insured is the other patient, and one that carries no signal
InsurancePolicyDocs ==
    {Json([policy_info |-> [insurance_company |-> "State Farm", policy_number |-> "SF-1",
                            policy_type |-> "Personal Auto"],
           named_insured |-> [name |-> "Maria Rodriguez"],
           coverages |->
               [bodily_injury_liability |-> [per_person |-> 100000, per_accident |-> 300000],
                personal_injury_protection_no_fault |-> [basic_pip |-> 50000],
                underinsured_motorist_sum |-> [per_person |-> 100000,
                                               per_accident |-> 300000]],
           liability_analysis |-> [meets_ny_minimum |-> TRUE]]),
     Json([policy_info |-> [insurance_company |-> "Progressive", policy_number |-> "PG-2",
                            policy_type |-> "Commercial Auto"],
           named_insured |-> [name |-> "Wilson Trucking LLC"],
           coverages |->
               [bodily_injury_liability |-> [per_person |-> 25000, per_accident |-> 50000]]]),
     Json([policy_info |-> [insurance_company |-> "Allstate", policy_number |-> "AL-3",
                            policy_type |-> "Personal Auto"],
           named_insured |-> [name |-> "John Smith"],
           coverages |->
               [personal_injury_protection_no_fault |-> [basic_pip |-> 50000,
                                                         additional_pip |-> 25000],
                underinsured_motorist_sum |-> [per_person |-> 50000,
                                               per_accident |-> 100000]]]),
     Json([policy_info |-> [insurance_company |-> "Geico", policy_number |-> "GE-4"],
           named_insured |-> [name |-> "Pat Lee"],
           coverages |->
               [bodily_injury_liability |-> [per_person |-> 50000, per_accident |-> 100000]]]),
     Malformed}

\* bills: the bill of scenario A, a second provider, a bill with a credit
\* balance, and a bill whose total is a currency string
MedicalBillDocs ==
    {Json([billing_provider |-> [name |-> "Bellevue Hospital Center"],
           billing_summary |-> [total_charges |-> PyInt(6290), total_payments |-> PyInt(5032),
                                balance_due |-> PyInt(630),
                                total_adjustments |-> PyInt(628)],
           line_items |-> <<[cpt_code |-> "99285", total_charge |-> 1850],
                            [cpt_code |-> "72141", total_charge |-> 2590],
                            [cpt_code |-> "99285", total_charge |-> 1850]>>,
           lien_info |-> [lien_filed |-> TRUE, lien_holder |-> "Bellevue Hospital Center",
                          lien_amount |-> 630]]),
     Json([billing_provider |-> [name |-> "NY Physical Therapy"],
           billing_summary |-> [total_charges |-> PyInt(1000), balance_due |-> PyInt(250)],
           line_items |-> <<[cpt_code |-> "97110", total_charge |-> 1000]>>]),
     Json([billing_provider |-> [name |-> "NY Physical Therapy"],
           billing_summary |-> [total_charges |-> PyInt(-500), total_payments |-> PyInt(-20),
                                balance_due |-> PyInt(-480),
                                total_adjustments |-> PyInt(-100)]]),
     Json([billing_provider |-> [name |-> "City Imaging"],
           billing_summary |-> [total_charges |-> PyStr("$2,590.00")]]),
     Malformed}

\* the files of a folder that holds the given documents of each type: the
\* i-th document of a type lies in directory h<i>
files(doc_type, docs) ==
    [i \in 1..Len(docs) |->
        [doc_type |-> doc_type, path |-> "h" \o str(i) \o "/" \o doc_type \o "/report.txt",
         content |-> docs[i]]]

Folder(records, reports, policies, bills) ==
    files("MEDICAL_RECORDS", records) \o files("POLICE_REPORT", reports)
    \o files("INSURANCE_POLICY", policies) \o files("MEDICAL_BILLS", bills)

\* medical records with police reports; one medical record with policies;
\* bills with and without a police report; at most one document of each type
Folders ==
    {Folder(records, reports, <<>>, <<>>) :
        records \in ListsUpTo(MedicalRecordDocs, MaxRecords),
        reports \in ListsUpTo(PoliceReportDocs, MaxReports)}
    \cup {Folder(records, <<>>, policies, <<>>) :
        records \in ListsUpTo(MedicalRecordDocs, 1),
        policies \in ListsUpTo(InsurancePolicyDocs, MaxPolicies)}
    \cup {Folder(<<>>, reports, <<>>, bills) :
        reports \in ListsUpTo(PoliceReportDocs, 1),
        bills \in ListsUpTo(MedicalBillDocs, MaxBills)}
    \cup {Folder(records, reports, policies, bills) :
        records \in ListsUpTo(MedicalRecordDocs, 1),
        reports \in ListsUpTo(PoliceReportDocs, 1),
        policies \in ListsUpTo(InsurancePolicyDocs, 1),
        bills \in ListsUpTo(MedicalBillDocs, 1)}

\* medical records in the format PICaseAggregator reads
CaseRecordDocs ==
    {Json([patient_info |-> [name |-> "Maria Rodriguez", date_of_birth |-> "03/15/1985",
                             age_at_visit |-> 38],
           document_info |-> [date_of_service |-> "12/20/2024",
                              facility_name |-> "Bellevue Hospital Center",
                              record_type |-> "Emergency"],
           treatment_provided |-> <<[description |-> "Cervical collar"]>>,
           diagnoses |-> <<[description |-> "Cervical radiculopathy", icd_code |-> "M54.12",
                            body_part |-> "Neck", is_primary |-> TRUE],
                           [description |-> "Cervical radiculopathy", icd_code |-> "M54.12",
                            body_part |-> "Neck"]>>,
           ny_serious_injury_indicators |->
               [permanent_consequential_limitation |-> TRUE, fracture |-> FALSE,
                supporting_language |-> <<"permanent partial disability">>]]),
     Json([patient_info |-> [name |-> "John Smith", date_of_birth |-> "07/04/1970",
                             age_at_visit |-> 54],
           document_info |-> [date_of_service |-> "01/05/2025"],
           referrals |-> <<[specialty |-> "Orthopedics"]>>,
           diagnoses |-> <<[description |-> "Lumbar strain", icd_code |-> "S39.012A",
                            body_part |-> "Lower back", is_primary |-> TRUE],
                           [description |-> "Neck pain", icd_code |-> "M54.12",
                            body_part |-> "Neck"]>>,
           ny_serious_injury_indicators |-> [ninety_one_eighty_disability |-> TRUE]]),
     Malformed}

\* the files of a case folder of PICaseAggregator: the i-th document of a
\* type is <doc_type>/d<i>.json
case_files(doc_type, docs) ==
    [i \in 1..Len(docs) |->
        [doc_type |-> doc_type, path |-> doc_type \o "/d" \o str(i) \o ".json",
         content |-> docs[i]]]

CaseFolder(records, reports, policies, bills) ==
    case_files("MEDICAL_RECORDS", records) \o case_files("POLICE_REPORT", reports)
    \o case_files("INSURANCE_POLICY", policies) \o case_files("MEDICAL_BILLS", bills)

\* medical records with police reports; policies; bills; at most one document
\* of each type
CaseFolders ==
    {CaseFolder(records, reports, <<>>, <<>>) :
        records \in ListsUpTo(CaseRecordDocs, MaxRecords),
        reports \in ListsUpTo(PoliceReportDocs, MaxReports)}
    \cup {CaseFolder(<<>>, <<>>, policies, <<>>) :
        policies \in ListsUpTo(InsurancePolicyDocs, MaxPolicies)}
    \cup {CaseFolder(<<>>, <<>>, <<>>, bills) :
        bills \in ListsUpTo(MedicalBillDocs, MaxBills)}
    \cup {CaseFolder(records, reports, policies, bills) :
        records \in ListsUpTo(CaseRecordDocs, 1),
        reports \in ListsUpTo(PoliceReportDocs, 1),
        policies \in ListsUpTo(InsurancePolicyDocs, 1),
        bills \in ListsUpTo(MedicalBillDocs, 1)}

\* texts of medical records: duplicates inside a text and across texts
MedicalRecordTexts ==
    {Text("Patient: Maria Rodriguez\n1. Cervical strain ICD-10: S13.4XXA\n2. Cervical radiculopathy ICD-10: M54.12\n3. Cervical strain ICD-10: S13.4XXA\nPLAN:\n1. No work x 2 weeks\n"),
     Text("Patient: John Smith\n1. Lumbar strain ICD-10: S13.4XXA\nCervical and lumbar tenderness\n")}

\* texts of policies: the plaintiff's of the sample case, the defendant's,
\* one of the same carrier for another insured, one of another carrier
InsurancePolicyTexts ==
    {Text("STATE FARM\nState Farm Mutual\nNamed Insured: Maria Rodriguez\nPolicy Number: SF-1\nBodily Injury Liability $100,000/$300,000\nPersonal Injury Protection: $50,000\nUnderinsured Motorist: $100,000/$300,000\n"),
     Text("Progressive Commercial Auto\nNamed Insured: Wilson Trucking\nPolicy Number: PG-2\nBodily Injury Liability $25,000/$50,000\n"),
     Text("State Farm\nNamed Insured: John Smith\nPolicy Number: SF-9\nPersonal Injury Protection: $50,000\n"),
     Text("Geico\nNamed Insured: Pat Lee\nPolicy Number: GE-4\nBodily Injury Liability $50,000/$100,000\n")}

\* texts of bills: the bill of scenario A, a second provider, and a bill
\* whose total is not written as a number
MedicalBillTexts ==
    {Text("BELLEVUE HOSPITAL CENTER\n99285 ER visit\n72141 MRI cervical\n99285 ER visit\nTotal Charges: $6,290.00\nInsurance Payment: $5,032.00\nAmount Due: $630.00\nHospital lien filed: $630.00\n"),
     Text("97110 Therapy\nTotal Charges: $1,000\nAmount Due: $250\n"),
     Text("City Imaging\nTotal Charges: , see statement\n")}

PoliceReportTexts ==
    {Text("Report Number: MV-2024-001\nTraffic camera footage\n")}

\* folders of texts: medical records; policies; bills; a medical record with a
\* police report and a bill
TextFolders ==
    {Folder(records, <<>>, <<>>, <<>>) : records \in ListsUpTo(MedicalRecordTexts, MaxRecords)}
    \cup {Folder(<<>>, <<>>, policies, <<>>) :
        policies \in ListsUpTo(InsurancePolicyTexts, MaxPolicies)}
    \cup {Folder(<<>>, <<>>, <<>>, bills) : bills \in ListsUpTo(MedicalBillTexts, MaxBills)}
    \cup {Folder(<<record>>, <<report>>, <<>>, <<bill>>) :
        record \in MedicalRecordTexts, report \in PoliceReportTexts,
        bill \in MedicalBillTexts}

(***************************************************************************)
(* The generator as a state machine.  Each specification starts with a     *)
(* summary loaded into self.case_data and nothing calculated, and its      *)
(* actions are the calls made on the generator.                            *)
(***************************************************************************)
Loaded(cases) ==
    /\ case_data \in cases
    /\ demand_calculation = EmptyDict
    /\ ret = <<"none", None>>
    /\ results_folder = <<>>
    /\ aggregator = None
    /\ set_order = None
    /\ printed = <<>>
    /\ history = <<>>

ClassifyInjurySeverity ==
    /\ ret' = <<"classify_injury_severity", classify_injury_severity(case_data)>>
    /\ UNCHANGED <<case_data, demand_calculation, aggregation>>

CalculateLiabilityStrength ==
    /\ ret' = <<"calculate_liability_strength", calculate_liability_strength(case_data)>>
    /\ UNCHANGED <<case_data, demand_calculation, aggregation>>

\* self.demand_calculation after a call whose outcome is r
stored(r, previous) == IF IsRaise(r) THEN previous ELSE r

CalculateDemandAmount ==
    /\ ret' = <<"calculate_demand_amount", calculate_demand_amount(case_data)>>
    /\ demand_calculation' = stored(ret'[2], demand_calculation)
    /\ UNCHANGED <<case_data, aggregation>>

\* classify_injury_severity over the injury texts
InitSeverity == Loaded(SeverityCases)
NextSeverity == ClassifyInjurySeverity
SpecSeverity == InitSeverity /\ [][NextSeverity]_vars

\* calculate_liability_strength over the liability sections
InitLiability == Loaded(LiabilityCases)
NextLiability == CalculateLiabilityStrength
SpecLiability == InitLiability /\ [][NextLiability]_vars

\* calculate_demand_amount over whole summaries
Init == Loaded(DemandCases)
Next == CalculateDemandAmount
Spec == Init /\ [][Next]_vars

(***************************************************************************)
(* The aggregators as state machines.  A behaviour is what happens to one  *)
(* results folder: processes are started on it, each constructs one        *)
(* aggregator and calls its methods; the summary a run returns is written  *)
(* to case_summary.json by main() and may be loaded into the generator.     *)
(***************************************************************************)
\* no process has been started on the folder
Folder_(folders) ==
    /\ results_folder \in folders
    /\ aggregator = None
    /\ set_order = None
    /\ printed = <<>>
    /\ history = <<>>
    /\ case_data = EmptyDict
    /\ demand_calculation = EmptyDict
    /\ ret = <<"none", None>>

\* the files lie in <case_folder>/<DOC_TYPE>/, the layout PICaseAggregator reads
IsCaseFolder(folder) ==
    \A i \in 1..Len(folder) :
        SubSeq(folder[i].path, 1, Len(folder[i].doc_type)) = folder[i].doc_type

\* every file of the folder holds a text explored as such
IsTextFolder(folder) ==
    /\ ~IsCaseFolder(folder)
    /\ \A i \in 1..Len(folder) : folder[i].content.type = "text"

\* a call on the aggregator is recorded in history; fresh tells that the
\* object had loaded nothing before the call
Record(method, value) ==
    Append(history, [method |-> method, fresh |-> aggregator = new_aggregator(aggregator.class),
                     value |-> value])

\* a call of load_documents or generate_summary that ends as run (the
\* object, what it printed) with the outcome value
Called(method, run, value) ==
    /\ aggregator' = run.self
    /\ printed' = printed \o run.printed
    /\ ret' = <<method, value>>
    /\ history' = Record(method, value)

\* main() of json_results_aggregator.py starts: a new process, whose hash
\* seed fixes the iteration order of its sets, constructs the aggregator
JSONStart ==
    /\ Len(history) < MaxCalls
    /\ IF aggregator = None THEN TRUE ELSE aggregator.class = "JSONResultsAggregator"
    /\ ~IsCaseFolder(results_folder)
    /\ aggregator' = new_aggregator("JSONResultsAggregator")
    /\ set_order' \in json_hash_orders(
                          json_load_documents(aggregator', results_folder).self)
    /\ UNCHANGED <<results_folder, printed, history, case_data, demand_calculation, ret>>

\* aggregator.load_documents()
JSONLoaded(run) == Called("load_documents", run, run.raised)

JSONLoadDocuments ==
    /\ aggregator # None /\ aggregator.class = "JSONResultsAggregator"
    /\ Len(history) < MaxCalls
    /\ JSONLoaded(json_load_documents(aggregator, results_folder))
    /\ UNCHANGED <<results_folder, set_order, case_data, demand_calculation>>

\* aggregator.generate_summary()
JSONGenerated(run) ==
    Called("generate_summary", run, json_generate_summary(run, set_order, Len(history) + 1))

JSONGenerateSummary ==
    /\ aggregator # None /\ aggregator.class = "JSONResultsAggregator"
    /\ Len(history) < MaxCalls
    /\ JSONGenerated(json_load_documents(aggregator, results_folder))
    /\ UNCHANGED <<results_folder, set_order, case_data, demand_calculation>>

\* the calls made on JSONResultsAggregator objects
InitJSON == Folder_(Folders)
NextJSON ==
    \/ JSONStart
    \/ JSONLoadDocuments
    \/ JSONGenerateSummary
SpecJSON == InitJSON /\ [][NextJSON]_vars

\* main() of json_results_aggregator.py: a process that constructs the
\* aggregator, generates the summary and saves it
JSONRan(run) ==
    /\ set_order' \in json_hash_orders(run.self)
    /\ aggregator' = run.self
    /\ printed' = run.printed
    /\ ret' = <<"generate_summary", json_generate_summary(run, set_order', 1)>>
    /\ history' = <<[method |-> "generate_summary", fresh |-> TRUE, value |-> ret'[2]]>>

JSONMain ==
    /\ history = <<>>
    /\ JSONRan(json_load_documents(new_aggregator("JSONResultsAggregator"), results_folder))
    /\ UNCHANGED <<results_folder, case_data, demand_calculation>>

\* DemandLetterGenerator.load_case_summary() on the summary the run
\* returned and main() saved
LoadCaseSummary ==
    /\ ret[1] = "generate_summary" /\ ~IsRaise(ret[2])
    /\ case_data' = ret[2]
    /\ ret' = <<"load_case_summary", None>>
    /\ UNCHANGED <<demand_calculation, aggregation>>

\* the JSON aggregator feeding the demand calculator
InitPipeline == Folder_(Folders)
NextPipeline ==
    \/ JSONMain
    \/ LoadCaseSummary
    \/ CalculateDemandAmount
SpecPipeline == InitPipeline /\ [][NextPipeline]_vars

\* a call of an extraction method, which leaves the object as it is
Extracted(method, value) ==
    /\ ret' = <<method, value>>
    /\ UNCHANGED <<results_folder, aggregator, set_order, printed, history, case_data,
                   demand_calculation>>

\* a process constructs a PICaseAggregator on the case folder
PIStart ==
    /\ aggregator = None
    /\ IsCaseFolder(results_folder)
    /\ aggregator' = new_aggregator("PICaseAggregator")
    /\ set_order' \in pi_hash_orders(pi_load_documents(aggregator', results_folder).self)
    /\ UNCHANGED <<results_folder, printed, history, case_data, demand_calculation, ret>>

IsPI == aggregator # None /\ aggregator.class = "PICaseAggregator"

\* aggregator.load_documents(); what it appended before an exception stays
PILoadDocuments ==
    /\ IsPI
    /\ Len(history) < MaxCalls
    /\ JSONLoaded(pi_load_documents(aggregator, results_folder))
    /\ UNCHANGED <<results_folder, set_order, case_data, demand_calculation>>

PIExtractPlaintiffInfo ==
    IsPI /\ Extracted("extract_plaintiff_info", pi_extract_plaintiff_info(aggregator))

PIExtractAccidentInfo ==
    IsPI /\ Extracted("extract_accident_info", pi_extract_accident_info(aggregator))

PIExtractInjuries ==
    IsPI /\ Extracted("extract_injuries", pi_extract_injuries(aggregator, set_order))

PICalculateSpecialDamages ==
    IsPI /\ Extracted("calculate_special_damages", pi_calculate_special_damages(aggregator))

PIAnalyzeInsuranceCoverage ==
    IsPI /\ Extracted("analyze_insurance_coverage", pi_analyze_insurance_coverage(aggregator))

PIAnalyzeNYSeriousInjury ==
    IsPI /\ Extracted("analyze_ny_serious_injury",
                      pi_analyze_ny_serious_injury(aggregator, set_order))

\* readings of the clock: long before the statute of limitations of the
\* accidents explored expires, within a year of it, within 180 days, after it
Clock ==
    {[date |-> [year |-> 2025, month |-> 6, day |-> 1], at_midnight |-> FALSE],
     [date |-> [year |-> 2026, month |-> 3, day |-> 1], at_midnight |-> FALSE],
     [date |-> [year |-> 2026, month |-> 11, day |-> 6], at_midnight |-> TRUE],
     [date |-> [year |-> 2027, month |-> 6, day |-> 1], at_midnight |-> FALSE]}

PIBuildTreatmentTimeline ==
    IsPI /\ Extracted("build_treatment_timeline", pi_build_treatment_timeline(aggregator))

PIGenerateRecommendedActions ==
    /\ IsPI
    /\ \E now \in Clock :
           Extracted("generate_recommended_actions",
                     pi_generate_recommended_actions(aggregator, set_order, now))

\* the calls made on a PICaseAggregator
InitPI == Folder_(CaseFolders)
NextPI ==
    \/ PIStart
    \/ PILoadDocuments
    \/ PIExtractPlaintiffInfo
    \/ PIExtractAccidentInfo
    \/ PIExtractInjuries
    \/ PICalculateSpecialDamages
    \/ PIAnalyzeInsuranceCoverage
    \/ PIAnalyzeNYSeriousInjury
    \/ PIGenerateRecommendedActions
    \/ PIBuildTreatmentTimeline
SpecPI == InitPI /\ [][NextPI]_vars

\* a process constructs an AWSResultsAggregator on the folder of texts
AWSStart ==
    /\ aggregator = None
    /\ IsTextFolder(results_folder)
    /\ aggregator' = new_aggregator("AWSResultsAggregator")
    /\ set_order' \in aws_hash_orders(aws_load_documents(aggregator', results_folder).self)
    /\ UNCHANGED <<results_folder, printed, history, case_data, demand_calculation, ret>>

IsAWS == aggregator # None /\ aggregator.class = "AWSResultsAggregator"

AWSLoadDocuments ==
    /\ IsAWS
    /\ Len(history) < MaxCalls
    /\ JSONLoaded(aws_load_documents(aggregator, results_folder))
    /\ UNCHANGED <<results_folder, set_order, case_data, demand_calculation>>

AWSExtractInjuries ==
    IsAWS /\ Extracted("extract_injuries", aws_extract_injuries(aggregator, set_order))

AWSExtractMedicalBills ==
    IsAWS /\ Extracted("extract_medical_bills", aws_extract_medical_bills(aggregator, set_order))

AWSExtractInsuranceCoverage ==
    IsAWS /\ Extracted("extract_insurance_coverage", aws_extract_insurance_coverage(aggregator))

AWSAnalyzeNYSeriousInjury ==
    IsAWS /\ Extracted("analyze_ny_serious_injury", aws_analyze_ny_serious_injury(aggregator))

AWSGenerateRecommendedActions ==
    IsAWS /\ Extracted("generate_recommended_actions",
                       aws_generate_recommended_actions(aggregator, set_order))

\* the calls made on an AWSResultsAggregator
InitAWS == Folder_(TextFolders)
NextAWS ==
    \/ AWSStart
    \/ AWSLoadDocuments
    \/ AWSExtractInjuries
    \/ AWSExtractMedicalBills
    \/ AWSExtractInsuranceCoverage
    \/ AWSAnalyzeNYSeriousInjury
    \/ AWSGenerateRecommendedActions
SpecAWS == InitAWS /\ [][NextAWS]_vars

\* the three aggregators, each on the folders it reads
InitAggregators == Folder_(Folders \cup CaseFolders \cup TextFolders)
NextAggregators ==
    \/ NextJSON
    \/ NextPI
    \/ NextAWS
SpecAggregators == InitAggregators /\ [][NextAggregators]_vars

(***************************************************************************)
(* The demand letter.  The generator is constructed on the path of a case  *)
(* summary and without a configuration file; the file at the path holds    *)
(* one of SummaryFiles when it is read.  Of the sections of the letter,    *)
(* the demand section is the one that shows the calculation.               *)
(***************************************************************************)
\* case summaries the file may hold: {} and summaries of one injury with
\* three amounts of specials and three policies, one of which the
\* calculation rejects
SummaryFiles ==
    {EmptyDict} \cup
    {[injuries |-> [imaging_findings |-> <<>>, diagnoses |-> <<"Cervical strain">>,
                    prognosis |-> ""],
      ny_serious_injury_analysis |-> [threshold_categories |-> <<>>],
      liability_analysis |-> [fault_determination |-> "Driver 2 at fault",
                              violations |-> <<"VTL 1111(d)(1)">>,
                              evidence |-> <<>>, contributing_factors |-> <<>>],
      medical_bills |-> [total_charges |-> charges],
      insurance_coverage |-> [defendant_policy |-> [bi_limits |-> limits]]] :
        charges \in {1000, 6290, 70000},
        limits \in {"$100,000/300,000", "$25,000/50,000", ", see declarations"}}

\* f"{amount:,.2f}" for an amount in thousandths of a dollar that is a whole
\* number of cents
format_cents(amount) ==
    format_thousands(amount \div 1000) \o "." \o two_digits((amount % 1000) \div 10)

\* date.strftime("%B")
MONTH_NAMES ==
    <<"January", "February", "March", "April", "May", "June", "July", "August",
      "September", "October", "November", "December">>

\* date.strftime("%B %d, %Y")
strftime_long(date) ==
    MONTH_NAMES[date.month] \o " " \o two_digits(date.day) \o ", " \o str(date.year)

\* generate_demand_section, lines 614-654: the section for the calculation
\* calc, the demand open for deadline_days days from the day now
demand_section_of(calc, deadline_days, now) ==
    join("\n",
         <<"## Demand",
           "",
           "Based on the foregoing facts, injuries, and damages, we hereby demand the sum of "
               \o "**$" \o format_money(calc.total_demand)
               \o "** to settle all claims arising from this incident.",
           "",
           "| Category | Amount |",
           "|----------|-------:|",
           "| Medical Specials | $" \o format_money(calc.total_specials) \o " |",
           "| Pain and Suffering | $" \o format_cents(calc.pain_and_suffering) \o " |",
           "| **TOTAL DEMAND** | **$" \o format_money(calc.total_demand) \o "** |",
           "">>
         \o (IF ~Falsy(calc.defendant_bi_limit)
                /\ calc.total_demand > calc.defendant_bi_limit.value
             THEN <<"*Note: This demand exceeds your insured's policy limits of $"
                        \o format_thousands(calc.defendant_bi_limit.value) \o ". "
                        \o "We reserve the right to pursue the excess from your insured personally.*",
                    "">>
             ELSE <<>>)
         \o <<"This demand will remain open for **" \o str(deadline_days)
                  \o " days** from the date of this letter (until "
                  \o strftime_long(fromordinal(toordinal(now.date) + deadline_days))
                  \o "). Please respond with your settlement position within this timeframe. "
                  \o "Failure to respond may result in the commencement of litigation without further notice.",
              "">>)

\* response_deadline_days of DEFAULT_CONFIG (line 63) and the default of
\* generate_demand_section (line 623)
RESPONSE_DEADLINE_DAYS == 30

\* the section, or the exception of the calculation it had to make
demand_section(calc, now) ==
    IF IsRaise(calc) THEN calc
    ELSE PyStr(demand_section_of(calc, RESPONSE_DEADLINE_DAYS, now))

\* self.demand_calculation, calculated first if it is empty (lines 612-613
\* and 709-710)
calculation_for(cd, calc) == IF calc = EmptyDict THEN calculate_demand_amount(cd) ELSE calc

\* a DemandLetterGenerator is constructed
InitLetter == Loaded({EmptyDict})

\* generator.load_case_summary(): the file holds summary
LoadCaseSummaryFile ==
    \E summary \in SummaryFiles :
        /\ case_data' = summary
        /\ ret' = <<"load_case_summary", None>>
        /\ UNCHANGED <<demand_calculation, aggregation>>

\* generator.generate_demand_section()
GenerateDemandSection ==
    \E now \in Clock :
        /\ demand_calculation' = stored(calculation_for(case_data, demand_calculation),
                                        demand_calculation)
        /\ ret' = <<"generate_demand_section",
                    demand_section(calculation_for(case_data, demand_calculation), now)>>
        /\ UNCHANGED <<case_data, aggregation>>

\* generator.generate_markdown(): the case summary is loaded if case_data is
\* empty (lines 703-704), the demand calculated if demand_calculation is empty;
\* the letter returned is given by its demand section, or the exception raised
GenerateMarkdown ==
    \E now \in Clock, summary \in SummaryFiles :
        /\ case_data' = IF case_data = EmptyDict THEN summary ELSE case_data
        /\ demand_calculation' = stored(calculation_for(case_data', demand_calculation),
                                        demand_calculation)
        /\ ret' = <<"generate_markdown",
                    demand_section(calculation_for(case_data', demand_calculation), now)>>
        /\ UNCHANGED aggregation

\* the calls made on a DemandLetterGenerator
NextLetter ==
    \/ LoadCaseSummaryFile
    \/ CalculateDemandAmount
    \/ GenerateDemandSection
    \/ GenerateMarkdown
SpecLetter == InitLetter /\ [][NextLetter]_vars

(***************************************************************************)
(* Properties.                                                             *)
(***************************************************************************)
\* calculate_demand_amount has stored a result
Calculated == DOMAIN demand_calculation # {}

\* the last call that returned was method m
Returned(m) == ret[1] = m

LiabilitySection == Get(case_data, "liability_analysis", EmptyDict)
InjuriesSection == Get(case_data, "injuries", EmptyDict)

\* C1: every total_demand stored by calculate_demand_amount is a multiple of 500.
C1_TotalDemandMultipleOf500 ==
    Calculated => demand_calculation.total_demand % 500 = 0

\* C1 witness: a positive demand whose unrounded sum was not a multiple of 500.
C1_Witness ==
    /\ Calculated
    /\ demand_calculation.total_demand > 0
    /\ (demand_calculation.total_specials * 1000
            + demand_calculation.pain_and_suffering) % 500000 # 0

\* C2: calculate_liability_strength returns a value in [0.0, 1.0].
C2_StrengthInUnitInterval ==
    Returned("calculate_liability_strength") =>
        FGe(ret[2], Float(0)) /\ FGe(Float(100), ret[2])

\* C2 witness: every bonus triggers (the raw sum is 1.15) and 1.0 is returned.
C2_Witness ==
    /\ Returned("calculate_liability_strength")
    /\ LiabilitySection.fault_determination = "Driver 2 at fault"
    /\ Len(LiabilitySection.violations) >= 2
    /\ LiabilitySection.evidence = <<"Traffic camera footage", "Witness statement">>
    /\ Len(LiabilitySection.contributing_factors) >= 2
    /\ ret[2] = Float(100)

\* the published (low, high) range of each tier, in thousandths, by tier value
PublishedRange ==
    [permanent       |-> <<3000, 5000>>,
     disc_herniation |-> <<2500, 4000>>,
     radiculopathy   |-> <<2500, 3500>>,
     disc_bulging    |-> <<2000, 3000>>,
     soft_tissue     |-> <<1500, 2500>>]

\* C3: the reported multiplier_used lies within the tier's published range,
\* which is also the reported multiplier_range.
C3_MultiplierWithinRange ==
    Calculated =>
        LET r == demand_calculation
            range == PublishedRange[r.severity_classification]
        IN  /\ r.multiplier_range = range
            /\ range[1] <= r.multiplier_used
            /\ r.multiplier_used <= range[2]

\* C3 witness: a result whose multiplier is strictly inside the range.
C3_Witness ==
    /\ Calculated
    /\ demand_calculation.multiplier_range[1] < demand_calculation.multiplier_used
    /\ demand_calculation.multiplier_used < demand_calculation.multiplier_range[2]
    /\ demand_calculation.multiplier_used
          > (demand_calculation.multiplier_range[1] + demand_calculation.multiplier_range[2]) \div 2

\* some imaging finding mentions kw (case-insensitively)
InImaging(kw) ==
    LET imaging == Get(InjuriesSection, "imaging_findings", <<>>)
    IN  \E i \in 1..Len(imaging) : Contains(lower(imaging[i]), kw)

\* some imaging finding, diagnosis or the prognosis mentions kw
Anywhere(kw) ==
    LET diagnoses == Get(InjuriesSection, "diagnoses", <<>>)
    IN  \/ InImaging(kw)
        \/ \E i \in 1..Len(diagnoses) : Contains(lower(diagnoses[i]), kw)
        \/ Contains(lower(Get(InjuriesSection, "prognosis", "")), kw)

\* a permanent keyword occurs in the combined text
PermanentKeyword ==
    \E kw \in {"permanent", "chronic", "irreversible", "uncertain recovery"} :
        Contains(all_text_of(case_data), kw)

\* the permanent-consequential-limitation category is among the threshold categories
PermanentCategory ==
    LET cats == Get(Get(case_data, "ny_serious_injury_analysis", EmptyDict),
                    "threshold_categories", <<>>)
    IN  \E i \in 1..Len(cats) : cats[i] = "Permanent consequential limitation"

\* C4: classify_injury_severity returns one of the five tiers, and when the
\* PERMANENT rule does not fire the first matching rule decides: herniation in
\* imaging, else radiculopathy anywhere, else bulging in imaging, else soft tissue.
C4_FirstMatchWins ==
    Returned("classify_injury_severity") =>
        /\ ret[2] \in {"PERMANENT", "DISC_HERNIATION", "RADICULOPATHY",
                       "DISC_BULGING", "SOFT_TISSUE"}
        /\ ~(PermanentKeyword /\ PermanentCategory) =>
              ret[2] = IF InImaging("herniation") \/ InImaging("herniated")
                       THEN "DISC_HERNIATION"
                       ELSE IF Anywhere("radiculopathy")
                       THEN "RADICULOPATHY"
                       ELSE IF InImaging("bulging") \/ InImaging("bulge")
                               \/ InImaging("protrusion")
                       THEN "DISC_BULGING"
                       ELSE "SOFT_TISSUE"

\* C4 witness: disc bulging in imaging with a radiculopathy diagnosis is
\* classified RADICULOPATHY.
C4_Witness ==
    /\ Returned("classify_injury_severity")
    /\ InjuriesSection.imaging_findings = <<"MRI: L4-L5 disc bulging">>
    /\ InjuriesSection.diagnoses = <<"Lumbar radiculopathy">>
    /\ ret[2] = "RADICULOPATHY"

\* C5: PERMANENT is returned exactly when a permanent keyword occurs in the
\* combined text and the permanent-consequential-limitation category is present.
C5_PermanentIffKeywordAndCategory ==
    Returned("classify_injury_severity") =>
        (ret[2] = "PERMANENT" <=> (PermanentKeyword /\ PermanentCategory))

\* C5 witness: PERMANENT is returned for a keyword that only the joined text
\* contains ("... uncertain" followed by "recovery ...").
C5_Witness ==
    /\ Returned("classify_injury_severity")
    /\ ret[2] = "PERMANENT"
    /\ ~Anywhere("uncertain recovery")
    /\ ~Anywhere("permanent") /\ ~Anywhere("chronic") /\ ~Anywhere("irreversible")

\* the terms of the liability score, as the summary shows them
FaultBonus ==
    LET fault == lower(Get(LiabilitySection, "fault_determination", ""))
    IN  IF Contains(fault, "100%") \/ Contains(fault, "at fault") \/ Contains(fault, "driver 2")
        THEN 1 ELSE 0

NumberOfViolations ==
    IF Len(Get(LiabilitySection, "violations", <<>>)) > 0
    THEN Len(LiabilitySection.violations)
    ELSE Len(Get(Get(case_data, "defendant", EmptyDict), "violations", <<>>))

EvidenceMentions(kw) ==
    LET evidence == Get(LiabilitySection, "evidence", <<>>)
    IN  \E i \in 1..Len(evidence) : Contains(lower(evidence[i]), kw)

NumberOfFactors == Len(Get(LiabilitySection, "contributing_factors", <<>>))

\* clamp to [0, 1] of the sum of the bonuses, in hundredths, in exact arithmetic
ExactScore ==
    Min(100, Max(0,
        50 + 20 * FaultBonus
           + 10 * Min(NumberOfViolations, 2)
           + 15 * (IF EvidenceMentions("camera") \/ EvidenceMentions("video") THEN 1 ELSE 0)
           + 10 * (IF EvidenceMentions("witness") THEN 1 ELSE 0)
           + 5 * Min(NumberOfFactors, 2)))

\* C6: calculate_liability_strength returns the clamped sum
\* 0.5 + 0.2*fault + 0.1*min(violations, 2) + 0.15*camera + 0.10*witness
\* + 0.05*min(factors, 2), i.e. the float of that decimal value.
C6_StrengthEqualsClampedSum ==
    Returned("calculate_liability_strength") => ret[2] = Float(ExactScore)

\* the liability strength calculate_demand_amount obtains for the loaded summary
Strength == calculate_liability_strength(case_data)

\* C7 as stated: the multiplier is high for strength >= 0.90, midpoint plus 25%
\* of the half-range for 0.75 <= strength < 0.90, the midpoint for
\* 0.50 <= strength < 0.75 and low otherwise.  The multiplier is taken in
\* 1/16000 so that a quarter of the half-range is a whole number, and is
\* compared with the reported 2-decimal multiplier_used.
C7_QuarterOfHalfRange ==
    Calculated =>
        LET low == demand_calculation.multiplier_range[1]
            high == demand_calculation.multiplier_range[2]
            m16 == IF FGe(Strength, Float(90)) THEN 16 * high
                   ELSE IF FGe(Strength, Float(75))
                   THEN 8 * (low + high) + 2 * (high - low)
                   ELSE IF FGe(Strength, Float(50)) THEN 8 * (low + high)
                   ELSE 16 * low
        IN  demand_calculation.multiplier_used = RoundHalfEven(m16, 160) * 10

\* C7 amended: as C7, with midpoint plus 25% of the whole range (high - low)
\* for 0.75 <= strength < 0.90; the reported multiplier_used is that multiplier
\* rounded to 2 decimals and pain_and_suffering is total_specials times it.
C7_QuarterOfRange ==
    Calculated =>
        LET low == demand_calculation.multiplier_range[1]
            high == demand_calculation.multiplier_range[2]
            m == IF FGe(Strength, Float(90)) THEN high
                 ELSE IF FGe(Strength, Float(75))
                 THEN (low + high) \div 2 + (high - low) \div 4
                 ELSE IF FGe(Strength, Float(50)) THEN (low + high) \div 2
                 ELSE low
        IN  /\ demand_calculation.multiplier_used = RoundHalfEven(m, 10) * 10
            /\ demand_calculation.pain_and_suffering
                  = RoundHalfEven(demand_calculation.total_specials * m, 10) * 10

\* C7 witness: a demand calculated for a strength of exactly 0.75 on positive specials.
C7_Witness ==
    /\ Calculated
    /\ Strength = Float(75)
    /\ demand_calculation.total_specials > 0
    /\ demand_calculation.multiplier_used = 2250

\* C8: the reported pain_and_suffering is total_specials times the reported
\* multiplier_used (pain in thousandths of a dollar, multiplier in thousandths).
C8_PainEqualsSpecialsTimesMultiplierUsed ==
    Calculated =>
        demand_calculation.pain_and_suffering
            = demand_calculation.total_specials * demand_calculation.multiplier_used

\* the defendant's per-person BI limit known from the summary, 0 when none is:
\* the first numeric group of bi_limits, else the numeric bi_per_person
KnownLimit ==
    LET policy == Get(Get(case_data, "insurance_coverage", EmptyDict),
                      "defendant_policy", EmptyDict)
        parsed == _parse_bi_limits(Get(policy, "bi_limits", ""))
    IN  IF parsed # None /\ parsed.value # 0 THEN parsed.value
        ELSE Get(policy, "bi_per_person", 0)

NoDefendantPolicy ==
    DOMAIN Get(Get(case_data, "insurance_coverage", EmptyDict),
               "defendant_policy", EmptyDict) = {}

\* C10: with no defendant policy in the summary, defendant_bi_limit has no
\* value and exceeds_coverage is null.
C10_NoPolicyNoLimit ==
    (Calculated /\ NoDefendantPolicy) =>
        /\ demand_calculation.defendant_bi_limit = None
        /\ demand_calculation.exceeds_coverage = None


(***************************************************************************)
(* Properties of the aggregators.                                          *)
(***************************************************************************)
\* the documents of a type that the folder holds as valid JSON, in order
Documents(doc_type) ==
    LET Valid(file) == file.content.type = "json"
        valid == SelectSeq(files_of(results_folder, doc_type), Valid)
    IN  [i \in 1..Len(valid) |-> valid[i].content.value]

\* the summary of the run was loaded and calculate_demand_amount returned
\* its result for it
DemandOfSummary ==
    /\ Len(history) = 1 /\ case_data = history[1].value
    /\ Returned("calculate_demand_amount") /\ ~IsRaise(ret[2])

\* the police report cites two violations, has camera and witness evidence
\* and determines the defendant fully at fault
ScenarioAReport(report) ==
    LET fault == Get(report, "fault_indicators", EmptyDict)
        cited == Get(fault, "violations_cited", <<>>)
    IN  /\ Len(cited) = 2
        /\ \A i \in 1..2 : Get(cited[i], "vtl_section", "") # ""
                           \/ Get(cited[i], "description", "") # ""
        /\ InLower("camera", Get(report, "narrative", ""))
        /\ Len(Get(report, "witnesses", <<>>)) > 0
        /\ InLower("100% at fault", Get(fault, "fault_determination", ""))

\* the texts of a medical record that describe its injuries
InjuryTexts(record) ==
    [i \in 1..Len(Get(record, "assessment", <<>>)) |->
        Get(record.assessment[i], "diagnosis", "")]
    \o [i \in 1..Len(Get(record, "diagnoses", <<>>)) |->
        Get(record.diagnoses[i], "description", "")]
    \o [i \in 1..Len(Get(record, "diagnosticImaging", <<>>)) |->
        record.diagnosticImaging[i][2]]
    \o <<Get(record, "prognosis", "")>>

\* some medical record of the folder has a text of a disc or radiculopathy tier
DiscOrRadiculopathyText ==
    \E i \in 1..Len(Documents("MEDICAL_RECORDS")) :
        \E j \in 1..Len(InjuryTexts(Documents("MEDICAL_RECORDS")[i])) :
            \E kw \in {"herniation", "herniated", "radiculopathy", "bulging", "bulge",
                       "protrusion"} :
                InLower(kw, InjuryTexts(Documents("MEDICAL_RECORDS")[i])[j])

\* C11: when the summary of a folder whose one police report is that of
\* scenario A is fed to the demand calculator, liability_strength is 1.0 and
\* multiplier_used is the high end of the range of the classified tier; the
\* tier is SOFT_TISSUE when no medical record has a herniation, radiculopathy
\* or bulging text.
C11_ScenarioAStrengthAndMultiplier ==
    (/\ DemandOfSummary
     /\ Len(Documents("POLICE_REPORT")) = 1
     /\ ScenarioAReport(Documents("POLICE_REPORT")[1]))
    => /\ demand_calculation.liability_strength = 100
       /\ \E tier \in DOMAIN SEVERITY_MULTIPLIERS :
             /\ demand_calculation.severity_classification = InjurySeverity[tier]
             /\ demand_calculation.multiplier_range = SEVERITY_MULTIPLIERS[tier]
             /\ demand_calculation.multiplier_used = SEVERITY_MULTIPLIERS[tier][2]
       /\ ~DiscOrRadiculopathyText
             => demand_calculation.severity_classification = InjurySeverity.SOFT_TISSUE

\* C11 witness: scenario A itself: the report with the bill of $6,290 and a
\* record without disc findings gives the soft-tissue high end 2.5.
C11_Witness ==
    /\ DemandOfSummary
    /\ Len(Documents("POLICE_REPORT")) = 1
    /\ ScenarioAReport(Documents("POLICE_REPORT")[1])
    /\ Len(Documents("MEDICAL_RECORDS")) = 1
    /\ ~DiscOrRadiculopathyText
    /\ demand_calculation.total_specials = 6290
    /\ demand_calculation.liability_strength = 100
    /\ demand_calculation.multiplier_used = 2500

\* no entry of the list occurs twice
NoDuplicates(list) == \A i, j \in 1..Len(list) : i # j => list[i] # list[j]

\* the last call returned a value and raised nothing
ReturnedValue(m) == Returned(m) /\ ~IsRaise(ret[2])

\* C12: the ICD-10 code list, the CPT code list and the body-parts list that
\* JSONResultsAggregator.generate_summary, PICaseAggregator.extract_injuries,
\* AWSResultsAggregator.extract_injuries and extract_medical_bills return
\* hold no entry twice.
C12_ListsWithoutDuplicates ==
    /\ ReturnedValue("generate_summary")
        => /\ NoDuplicates(ret[2].injuries.icd_codes)
           /\ NoDuplicates(ret[2].injuries.body_parts)
           /\ NoDuplicates(ret[2].medical_bills.cpt_codes)
    /\ ReturnedValue("extract_injuries")
        => /\ NoDuplicates(ret[2].icd_codes)
           /\ NoDuplicates(IF IsPI THEN ret[2].body_parts_affected ELSE ret[2].body_parts)
    /\ ReturnedValue("extract_medical_bills") => NoDuplicates(ret[2].cpt_codes)

\* C12 witness: texts loaded twice, whose ICD-10 codes, body parts and CPT
\* codes repeat inside a text and across the texts, and the bills extracted
\* with two CPT codes.
C12_Witness ==
    /\ IsAWS
    /\ ReturnedValue("extract_medical_bills")
    /\ ~NoDuplicates(aws_collect_injuries(aggregator).icd_codes)
    /\ ~NoDuplicates(aws_collect_injuries(aggregator).body_parts)
    /\ ~NoDuplicates(aws_collect_bills(aggregator).cpt_codes)
    /\ Len(aws_extract_injuries(aggregator, set_order).icd_codes) = 2
    /\ Len(ret[2].cpt_codes) = 2

\* the i-th call recorded is generate_summary on an aggregator that had
\* loaded nothing: what a run of main() does in its process
IsRun(i) == history[i].method = "generate_summary" /\ history[i].fresh

\* two outcomes of generate_summary agree on everything but generated_date
SameButDate(one, other) ==
    IF IsRaise(one) \/ IsRaise(other) THEN one = other
    ELSE [one EXCEPT !.generated_date = 0] = [other EXCEPT !.generated_date = 0]

\* C13: two runs of generate_summary on the same folder, each on a newly
\* constructed aggregator, return summaries equal in every field except
\* generated_date.
C13_RunsAgreeButDate ==
    \A i, k \in 1..Len(history) :
        IsRun(i) /\ IsRun(k) => SameButDate(history[i].value, history[k].value)

\* load_documents has just returned or raised, called on an aggregator that
\* had loaded nothing
LoadedFromNothing ==
    /\ Returned("load_documents")
    /\ history[Len(history)].fresh
    /\ ~IsAWS

\* some line printed names the file
WarnedAbout(file) ==
    \E k \in 1..Len(printed) :
        /\ Contains(Chars(printed[k]), "Warning")
        /\ Contains(Chars(printed[k]), file.path)

\* C15: load_documents of JSONResultsAggregator and of PICaseAggregator never
\* raises because of a file that is not valid JSON: it prints a warning that
\* names the file, appends nothing for it, and loads every other file of
\* every document type.
C15_MalformedSkipped ==
    LoadedFromNothing =>
        /\ ~IsRaise(ret[2])
        /\ \A t \in Range(DOC_TYPES) : aggregator[ListOf[t]] = Documents(t)
        /\ \A i \in 1..Len(results_folder) :
              results_folder[i].content.type # "json" => WarnedAbout(results_folder[i])

\* C16: a malformed currency or limit string never raises: generate_summary
\* returns a summary whatever the amounts of the bills are, and
\* calculate_demand_amount returns a result whatever bi_limits is.
C16_MalformedAmountNeverRaises ==
    /\ Returned("generate_summary") => ~IsRaise(ret[2])
    /\ Returned("calculate_demand_amount") => ~IsRaise(ret[2])

\* what a bill contributes to a total: the number its billing_summary holds
\* under the key, and 0 when it holds none
Contribution(bill, key) ==
    LET amount == Get(Get(bill, "billing_summary", EmptyDict), key, PyInt(0))
    IN  IF amount.type = "int" THEN amount.value ELSE 0

RECURSIVE TotalOf(_, _)
TotalOf(bills, key) ==
    IF Len(bills) = 0 THEN 0
    ELSE Contribution(Head(bills), key) + TotalOf(Tail(bills), key)

\* C14: the run returns a summary whose total_charges, total_paid and
\* total_owed are the sums of what each medical-bill document of the folder
\* contributes; a document that does not parse contributes 0 and the run
\* does not abort.
C14_TotalsAreSums ==
    Returned("generate_summary") =>
        /\ ~IsRaise(ret[2])
        /\ ret[2].medical_bills.total_charges
               = TotalOf(Documents("MEDICAL_BILLS"), "total_charges")
        /\ ret[2].medical_bills.total_paid
               = TotalOf(Documents("MEDICAL_BILLS"), "total_payments")
        /\ ret[2].medical_bills.total_owed
               = TotalOf(Documents("MEDICAL_BILLS"), "balance_due")

\* C17: every monetary total of a case summary (total charges, paid, owed,
\* adjustments, the amount of each lien) and total_specials of the demand
\* calculation is >= 0.
C17_TotalsNotNegative ==
    /\ ReturnedValue("generate_summary")
        => /\ ret[2].medical_bills.total_charges >= 0
           /\ ret[2].medical_bills.total_paid >= 0
           /\ ret[2].medical_bills.total_owed >= 0
           /\ ret[2].medical_bills.total_adjustments >= 0
           /\ \A i \in 1..Len(ret[2].medical_bills.liens) :
                 ret[2].medical_bills.liens[i].amount >= 0
    /\ Calculated => demand_calculation.total_specials >= 0

\* the summary of a run of generate_summary on an aggregator that had loaded
\* nothing: every document of the folder was loaded once
RunSummary ==
    /\ ReturnedValue("generate_summary")
    /\ history[Len(history)].fresh

InsuredName(policy) == Get(Get(policy, "named_insured", EmptyDict), "name", "")
PolicyType(policy) == Get(Get(policy, "policy_info", EmptyDict), "policy_type", "")
PolicyNumber(policy) == Get(Get(policy, "policy_info", EmptyDict), "policy_number", "")

\* the named insured of the policy is the plaintiff of the summary
InsuredIsPlaintiff(policy, summary) ==
    summary.plaintiff.name # "" /\ InsuredName(policy) = summary.plaintiff.name

\* the policy type tells a personal or a commercial policy
HasTypeMarker(policy) ==
    InLower("personal", PolicyType(policy)) \/ InLower("commercial", PolicyType(policy))

\* the section of the coverage holds the data of the policy
AssignedTo(section, policy) ==
    PolicyNumber(policy) # "" /\ Get(section, "policy_number", "") = PolicyNumber(policy)

\* C18: a policy whose named insured is not the plaintiff and whose type
\* carries no personal or commercial marker is assigned neither to
\* plaintiff_policy nor to defendant_policy.
C18_NoSignalUnassigned ==
    RunSummary =>
        \A i \in 1..Len(Documents("INSURANCE_POLICY")) :
            (/\ ~InsuredIsPlaintiff(Documents("INSURANCE_POLICY")[i], ret[2])
             /\ ~HasTypeMarker(Documents("INSURANCE_POLICY")[i]))
            => /\ ~AssignedTo(ret[2].insurance_coverage.plaintiff_policy,
                              Documents("INSURANCE_POLICY")[i])
               /\ ~AssignedTo(ret[2].insurance_coverage.defendant_policy,
                              Documents("INSURANCE_POLICY")[i])

\* C19: a policy whose named insured is the plaintiff of the summary is the
\* plaintiff_policy, whatever the name is, and its PIP and SUM amounts are
\* the available coverage; checked for folders with one policy.
C19_InsuredPlaintiffPolicy ==
    (/\ RunSummary
     /\ Len(Documents("INSURANCE_POLICY")) = 1
     /\ InsuredIsPlaintiff(Documents("INSURANCE_POLICY")[1], ret[2]))
    => /\ AssignedTo(ret[2].insurance_coverage.plaintiff_policy,
                     Documents("INSURANCE_POLICY")[1])
       /\ ret[2].insurance_coverage.pip_available
              = ret[2].insurance_coverage.plaintiff_policy.pip_amount
       /\ ret[2].insurance_coverage.sum_available
              = ret[2].insurance_coverage.plaintiff_policy.sum_amount

\* the last document of a loaded list
Last(list) == list[Len(list)]

\* every medical record loaded supplies the plaintiff's name and date of birth
RecordsSupplyPlaintiff ==
    /\ Len(aggregator.medical_records) > 0
    /\ \A i \in 1..Len(aggregator.medical_records) :
          /\ Get(Get(aggregator.medical_records[i], "patient_info", EmptyDict), "name", "") # ""
          /\ Get(Get(aggregator.medical_records[i], "patient_info", EmptyDict),
                 "date_of_birth", "") # ""

\* every police report loaded supplies the date, the time and the number
ReportsSupplyAccident ==
    /\ Len(aggregator.police_reports) > 0
    /\ \A i \in 1..Len(aggregator.police_reports) :
          /\ Get(Get(aggregator.police_reports[i], "accident_details", EmptyDict),
                 "date", "") # ""
          /\ Get(Get(aggregator.police_reports[i], "accident_details", EmptyDict),
                 "time", "") # ""
          /\ Get(Get(aggregator.police_reports[i], "report_info", EmptyDict),
                 "report_number", "") # ""

\* C20: when every document of a type supplies a scalar field, the section
\* PICaseAggregator returns holds the value of the last document loaded: the
\* plaintiff's name and date of birth, the accident's date, time and report
\* number.
C20_LastDocumentWins ==
    /\ (IsPI /\ ReturnedValue("extract_plaintiff_info") /\ RecordsSupplyPlaintiff)
        => /\ ret[2].name = Last(aggregator.medical_records).patient_info.name
           /\ ret[2].date_of_birth = Last(aggregator.medical_records).patient_info.date_of_birth
    /\ (IsPI /\ ReturnedValue("extract_accident_info") /\ ReportsSupplyAccident)
        => /\ ret[2].date = Last(aggregator.police_reports).accident_details.date
           /\ ret[2].time = Last(aggregator.police_reports).accident_details.time
           /\ ret[2].police_report_number
                  = Last(aggregator.police_reports).report_info.report_number

\* what one police report contributes to the lists of the summary
FactorsOf(report) ==
    Get(Get(report, "fault_indicators", EmptyDict), "contributing_factors", <<>>)

ViolationsOf(report) ==
    FoldLeft(json_append_violation, <<>>,
             Get(Get(report, "fault_indicators", EmptyDict), "violations_cited", <<>>))

\* the contributions of the reports one after the other, in load order
RECURSIVE AllFactors(_)
AllFactors(reports) ==
    IF Len(reports) = 0 THEN <<>>
    ELSE FactorsOf(Head(reports)) \o AllFactors(Tail(reports))

RECURSIVE AllViolations(_)
AllViolations(reports) ==
    IF Len(reports) = 0 THEN <<>>
    ELSE ViolationsOf(Head(reports)) \o AllViolations(Tail(reports))

RECURSIVE AllEvidence(_)
AllEvidence(reports) ==
    IF Len(reports) = 0 THEN <<>>
    ELSE json_evidence_of(Head(reports)) \o AllEvidence(Tail(reports))

\* C21: the violations, contributing-factors and evidence lists of the
\* summary are the concatenation, in load order, of what each police report
\* contributes, duplicates kept; a later report erases nothing.
C21_ListsConcatenated ==
    RunSummary =>
        /\ ret[2].defendant.violations = AllViolations(Documents("POLICE_REPORT"))
        /\ ret[2].liability_analysis.evidence = AllEvidence(Documents("POLICE_REPORT"))
        /\ ret[2].liability_analysis.contributing_factors
               = AllFactors(Documents("POLICE_REPORT"))
        /\ ret[2].defendant.contributing_factors = AllFactors(Documents("POLICE_REPORT"))

\* meets_threshold tells that the list of categories is not empty
MeetsIffCategories(meets_threshold, categories) == meets_threshold <=> Len(categories) > 0

\* the notes are the text of the branch meets_threshold selects
NotesOfBranch(analysis) ==
    analysis.notes = IF analysis.meets_threshold THEN LIKELY_MEETS
                     ELSE ADDITIONAL_DOCUMENTATION

StandardActions(class) ==
    CASE class = "JSONResultsAggregator" ->
             <<"Request traffic camera footage via FOIL request",
               "Send preservation letter to defendant's insurance carrier",
               "Request certified copy of police report",
               "Obtain complete medical records from all treating providers",
               "Consider demand letter after maximum medical improvement">>
      [] class = "PICaseAggregator" -> PI_STANDARD_ACTIONS
      [] class = "AWSResultsAggregator" -> AWS_STANDARD_ACTIONS

\* a call has returned a list of recommended actions
ActionsReturned ==
    \/ ReturnedValue("generate_summary")
    \/ ReturnedValue("generate_recommended_actions")

RecommendedActions ==
    IF ret[1] = "generate_summary" THEN ret[2].recommended_actions ELSE ret[2].value

\* the standard actions are all there and none of the other actions comes
\* after the first of them
StandardTail(actions, standard) ==
    /\ \A k \in 1..Len(standard) : InList(standard[k], actions)
    /\ \A i, j \in 1..Len(actions) :
           (i < j /\ InList(actions[i], standard)) => InList(actions[j], standard)

\* C23 as stated: the condition-derived actions are followed by a fixed tail
\* of standard actions, present for every corpus; no condition-derived action
\* appears after the first standard action.
C23_StandardTail ==
    ActionsReturned => StandardTail(RecommendedActions, StandardActions(aggregator.class))

\* the action at place j, not a standard one, is one of the two that the code
\* adds after standard actions: the No-Fault claim of JSONResultsAggregator,
\* just before the closing standard action, and the lien negotiation of
\* PICaseAggregator, at the end
LateAction(class, actions, j) ==
    \/ /\ class = "JSONResultsAggregator"
       /\ startswith(actions[j], "File No-Fault claim (PIP available: $")
       /\ j = Len(actions) - 1
    \/ /\ class = "PICaseAggregator"
       /\ startswith(actions[j], "Negotiate medical liens totaling $")
       /\ j = Len(actions)

StandardInOrder(class, actions, standard) ==
    /\ SelectSeq(actions, LAMBDA action : InList(action, standard)) = standard
    /\ \A i, j \in 1..Len(actions) :
           (i < j /\ InList(actions[i], standard) /\ ~InList(actions[j], standard))
               => LateAction(class, actions, j)

\* C23, amended: the standard actions are present for every corpus, once
\* each and in a fixed order; the condition-derived actions come before the
\* first standard action, except the No-Fault claim of JSONResultsAggregator
\* (PIP available), which comes just before the closing standard action, and
\* the lien negotiation of PICaseAggregator (liens above 0), which comes last.
C23_StandardActionsInOrder ==
    ActionsReturned
        => StandardInOrder(aggregator.class, RecommendedActions,
                           StandardActions(aggregator.class))

\* C23 witness: a summary of JSONResultsAggregator for a corpus with PIP
\* available: a condition-derived action before the standard actions and the
\* No-Fault claim among them.
C23_Witness ==
    /\ ReturnedValue("generate_summary")
    /\ ret[2].insurance_coverage.pip_available > 0
    /\ ~InList(ret[2].recommended_actions[1], StandardActions("JSONResultsAggregator"))
    /\ startswith(ret[2].recommended_actions[Len(ret[2].recommended_actions) - 1],
                  "File No-Fault claim")
\* the two representations of the medical specials in the case data, 0 for
\* one that is missing
TotalCharges == Get(Get(case_data, "medical_bills", EmptyDict), "total_charges", 0)
TotalBilled ==
    Get(Get(Get(case_data, "special_damages", EmptyDict), "medical_expenses", EmptyDict),
        "total_billed", 0)

\* C24: total_specials is medical_bills.total_charges when that is not zero,
\* and special_damages.medical_expenses.total_billed when total_charges is
\* zero or missing; it is 0 only if both are zero or missing.
C24_SpecialsFromEitherRepresentation ==
    Calculated =>
        /\ TotalCharges # 0 => demand_calculation.total_specials = TotalCharges
        /\ TotalCharges = 0 => demand_calculation.total_specials = TotalBilled
        /\ demand_calculation.total_specials = 0 => (TotalCharges = 0 /\ TotalBilled = 0)

\* C24 witness: total_charges is 0 and the specials of the demand are the
\* total_billed of special_damages.
C24_Witness ==
    /\ Calculated
    /\ "medical_bills" \in DOMAIN case_data
    /\ TotalCharges = 0
    /\ TotalBilled = 6290
    /\ demand_calculation.total_specials = 6290

\* two summaries agree on the document counts, the monetary totals and the
\* lists
SameCountsTotalsLists(one, other) ==
    /\ one.document_counts = other.document_counts
    /\ one.medical_bills = other.medical_bills
    /\ one.special_damages = other.special_damages
    /\ one.injuries = other.injuries
    /\ one.defendant.violations = other.defendant.violations
    /\ one.liability_analysis.evidence = other.liability_analysis.evidence

\* C25: a second call of generate_summary on the same aggregator object, over
\* the unchanged results folder, returns the document counts, monetary totals
\* and lists of the first call: the documents the first call loaded are not
\* counted again.
C25_SecondSummarySame ==
    (/\ Len(history) = 2
     /\ history[1].method = "generate_summary" /\ ~IsRaise(history[1].value)
     /\ history[2].method = "generate_summary" /\ ~IsRaise(history[2].value)
     /\ ~history[2].fresh)
        => SameCountsTotalsLists(history[1].value, history[2].value)

\* the rows of the demand section that show the figures of a calculation
FigureRows(calc) ==
    <<"the sum of **$" \o format_money(calc.total_demand) \o "** to settle",
      "| Medical Specials | $" \o format_money(calc.total_specials) \o " |",
      "| Pain and Suffering | $" \o format_cents(calc.pain_and_suffering) \o " |",
      "| **TOTAL DEMAND** | **$" \o format_money(calc.total_demand) \o "** |">>

\* a demand section has been returned, alone or in the letter
SectionReturned ==
    (Returned("generate_demand_section") \/ Returned("generate_markdown"))
    /\ ~IsRaise(ret[2])

ShowsFigures(section, rows) == \A k \in 1..Len(rows) : Contains(Chars(section), rows[k])

\* C26: the figures of the demand section returned are those of
\* calculate_demand_amount applied to the case_data loaded at the time: a
\* calculation made for case data loaded before is not reused.
C26_LetterShowsCurrentCalculation ==
    SectionReturned
        => /\ ~IsRaise(calculate_demand_amount(case_data))
           /\ ShowsFigures(ret[2].value, FigureRows(calculate_demand_amount(case_data)))

\* total_specials + pain_and_suffering of the calculation stored, in
\* thousandths of a dollar
UnroundedDemand ==
    demand_calculation.total_specials * 1000 + demand_calculation.pain_and_suffering

\* C27: total_demand is the multiple of 500 nearest to total_specials +
\* pain_and_suffering, at most 250 away from it; a sum halfway between two
\* multiples goes to the even one (250 to 0, 750 to 1000).
C27_NearestMultipleHalfToEven ==
    Calculated =>
        /\ demand_calculation.total_demand % 500 = 0
        /\ demand_calculation.total_demand * 1000 - UnroundedDemand <= 250000
        /\ UnroundedDemand - demand_calculation.total_demand * 1000 <= 250000
        /\ UnroundedDemand % 500000 = 250000
               => (demand_calculation.total_demand \div 500) % 2 = 0
        /\ UnroundedDemand = 250000 => demand_calculation.total_demand = 0
        /\ UnroundedDemand = 750000 => demand_calculation.total_demand = 1000

\* C27 witness: specials of 250 at a multiplier of 2.0: the sum 750 lies
\* halfway between 500 and 1000 and the demand is 1000.
C27_Witness ==
    /\ Calculated
    /\ demand_calculation.total_specials = 250
    /\ UnroundedDemand = 750000
    /\ demand_calculation.total_demand = 1000

\* the fault determinations explored that attribute full fault to the
\* defendant (driver 2)
FullFaultOnDefendant == {"Driver 2 at fault", "Defendant 100% liable"}

\* the strength of the loaded summary with its fault determination left out
StrengthWithoutDetermination ==
    calculate_liability_strength(
        [case_data EXCEPT !.liability_analysis =
            [k \in DOMAIN @ \ {"fault_determination"} |-> @[k]]])

\* C28: the fault bonus of calculate_liability_strength is awarded only for a
\* fault determination that attributes full fault to the defendant; 'Driver 1
\* at fault' and 'Defendant not at fault' earn none.
C28_FaultBonusOnlyForDefendantFault ==
    (Returned("calculate_liability_strength") /\ ret[2] # StrengthWithoutDetermination)
        => LiabilitySection.fault_determination \in FullFaultOnDefendant

\* the entries at places i < j of the timeline are in the order of the
\* calendar: the later one is not of an earlier day
InCalendarOrder(timeline, i, j) ==
    (timeline[i].date # "" /\ timeline[j].date # "")
        => toordinal(strptime(timeline[i].date)) <= toordinal(strptime(timeline[j].date))

\* C29: build_treatment_timeline returns one entry per medical record, in the
\* order of the calendar dates of service (MM/DD/YYYY), also for dates of
\* different years.
C29_TimelineChronological ==
    Returned("build_treatment_timeline")
        => /\ Len(ret[2]) = Len(aggregator.medical_records)
           /\ \A i, j \in 1..Len(ret[2]) : i < j => InCalendarOrder(ret[2], i, j)

\* the balance due of the bill itself
OwnBalance(bill) ==
    Get(Get(bill, "billing_summary", EmptyDict), "balance_due", PyInt(0)).value

\* the lien entry claimed for one bill: the filed lien, with the bill's own
\* balance for an amount that is not given, else a potential lien of the
\* bill's own balance if that is due
OwnLien(bill) ==
    IF Get(Get(bill, "lien_info", EmptyDict), "lien_filed", FALSE)
    THEN <<[provider |-> Get(bill.lien_info, "lien_holder",
                             Get(Get(bill, "billing_provider", EmptyDict), "name", "")),
            amount |-> Get(bill.lien_info, "lien_amount", OwnBalance(bill))]>>
    ELSE IF OwnBalance(bill) > 0
    THEN <<[provider |-> Get(Get(bill, "billing_provider", EmptyDict), "name", ""),
            amount |-> OwnBalance(bill)]>>
    ELSE <<>>

RECURSIVE OwnLiens(_)
OwnLiens(bills) ==
    IF Len(bills) = 0 THEN <<>> ELSE OwnLien(Head(bills)) \o OwnLiens(Tail(bills))

\* C30: the liens of extract_medical_bills are, bill by bill, the filed lien
\* (its amount defaulting to the bill's own balance due) or, for a bill
\* without a filed lien, a potential lien of the bill's own balance due if
\* and only if that bill has a balance due.
C30_LiensOfOwnBalance ==
    ReturnedValue("generate_summary")
        => ret[2].medical_bills.liens = OwnLiens(aggregator.medical_bills)

====
